---- MODULE Spec2Model ----
(***************************************************************************)
(* Model of the HTTP transport core of mender_sdk: the retry policy        *)
(* (utils/retry.py), the error classifier and the request executor         *)
(* (utils/http.py, exceptions.py), the credential swap of MenderClient     *)
(* (client.py) and the paginating iterators (clients/, models/common.py).  *)
(*                                                                         *)
(* Durations are integers in milliseconds (1.0 s = 1000).  An optional     *)
(* value (Python None / a value) is the empty sequence or a one-element    *)
(* sequence.  A header value is a sequence of one-character strings.       *)
(***************************************************************************)
EXTENDS Integers, Sequences, FiniteSets, TLC

VARIABLES
    retry_config,   \* HTTPClient.retry_config, the policy given at construction
    config,         \* the RetryConfig closed over by retry_with_backoff's wrapper
    _client,        \* HTTPClient._client: 0 is None, else the id of a session
    open_sessions,  \* ids of the sessions that exist and are not closed
    nsessions,      \* number of sessions created so far
    pc,             \* position of the call: idle, func, sleep, returned, raised
    method,         \* HTTP method of the call in progress
    attempt,        \* wrapper's loop variable
    response,       \* transport outcome of the latest attempt (None before it)
    error,          \* exception raised by the latest func invocation (None if none)
    last_exception, \* wrapper's local last_exception
    result,         \* what the call returned (a response) or raised (an exception)
    nattempts,      \* transport attempts made by the call in progress
    nsleeps,        \* backoff sleeps started by the call in progress
    delay,          \* duration of the latest sleep (None before the first)
    _token,         \* MenderClient._token (None or a string)
    token,          \* HTTPClient.token (None or a string)
    headers,        \* argument headers of the call in progress (None or a dict)
    client,         \* _request's local client: the session of the latest attempt
    request_headers, \* _request's local request_headers of the latest attempt
    error_detail,   \* message, response_body, request_id of the exception in error
    d_self,         \* calculate_delay: the RetryConfig it is called on
    d_attempt,      \* calculate_delay: argument attempt
    d_retry_after,  \* calculate_delay: argument retry_after
    d_out,          \* calculate_delay: its outcome
    d_pc,           \* calculate_delay: "args" before the call, "done" after
    p_iter,         \* pagination: the iterator method in use
    p_per_page,     \* pagination: argument per_page
    p_page,         \* pagination: local page
    p_pc,           \* pagination: fetch, yield, done, raised (unused outside)
    p_result,       \* pagination: local result, the PaginatedResponse (None before)
    p_next,         \* pagination: index in result.items of the next item to yield
    p_yielded,      \* pagination: the items the consumer has received, in order
    p_fetched,      \* pagination: the (page, per_page) requests made, in order
    p_served,       \* pagination: the item lists the server answered, in order
    p_header,       \* pagination: X-Total-Count as the latest response carried it
    p_raised,       \* pagination: the exception that ended the iteration (None if none)
    p_failed,       \* pagination: how many earlier iterators ended by raising
    calls,          \* concurrent calls: the state of each call's wrapper
    _http_client,   \* MenderClient._http_client: 0 is None, else an executor id
    _inventory,     \* MenderClient._inventory: 0 is None, else a sub-client id
    _deployments,   \* MenderClient._deployments: 0 is None, else a sub-client id
    executors,      \* the HTTPClient objects MenderClient has created, by id
    subclients,     \* the sub-client objects MenderClient has created, by id
    held,           \* ids of the sub-clients the properties have returned
    last_request,   \* the latest request made through a sub-client (None before)
    l_method,       \* resource creation: the method in use
    l_headers,      \* resource creation: Location of response.headers (None if absent)
    l_id,           \* resource creation: the identifier returned (None before)
    l_pc,           \* resource creation: "args" before the return, "done" after
    closer,         \* the task running HTTPClient.close(): its position
    base_url,       \* HTTPClient.base_url
    timeout,        \* HTTPClient.timeout, in milliseconds
    verify_ssl      \* HTTPClient.verify_ssl

vars == <<retry_config, config, _client, open_sessions, nsessions, pc, method,
          attempt, response, error, last_exception, result, nattempts, nsleeps,
          delay, _token, token, headers, client, request_headers, error_detail,
          d_self, d_attempt, d_retry_after, d_out, d_pc,
          p_iter, p_per_page, p_page, p_pc, p_result, p_next, p_yielded,
          p_fetched, p_served, p_header, p_raised, p_failed, calls,
          _http_client, _inventory, _deployments, executors, subclients, held,
          last_request, l_method, l_headers, l_id, l_pc, closer,
          base_url, timeout, verify_ssl>>

wire_vars == <<_token, token, headers, client, request_headers, error_detail>>

exec_vars == <<retry_config, config, _client, open_sessions, nsessions, pc, method,
               attempt, response, error, last_exception, result, nattempts,
               nsleeps, delay, wire_vars>>

delay_vars == <<d_self, d_attempt, d_retry_after, d_out, d_pc>>

page_vars == <<p_iter, p_per_page, p_page, p_pc, p_result, p_next, p_yielded,
               p_fetched, p_served, p_header, p_raised, p_failed>>

\* the MenderClient object, the objects it has created and handed out
facade_vars == <<_http_client, _inventory, _deployments, executors, subclients,
                 held, last_request>>

location_vars == <<l_method, l_headers, l_id, l_pc>>

\* the attributes of HTTPClient that are set at construction only
settings_vars == <<base_url, timeout, verify_ssl>>

\* the variables of the parts modelled last
other_vars == <<location_vars, closer, settings_vars>>

\* what the actions of a call through the executor leave alone
non_exec_vars == <<delay_vars, page_vars, calls, facade_vars, other_vars>>

\* the variables of the call made alone
single_call_vars == <<pc, method, attempt, response, error, last_exception, result,
                      nattempts, nsleeps, delay>>

None == <<>>
Some(x) == <<x>>

Min(a, b) == IF a <= b THEN a ELSE b

(***************************************************************************)
(* Bounds of the model.                                                    *)
(***************************************************************************)
\* sessions one executor may create in a run
MaxSessions == 2
\* largest attempt index handed to calculate_delay in SpecDelay
MaxAttempt == 1030

\* seconds to the model's milliseconds (float(retry_after), delays)
Seconds(k) == k * 1000

(***************************************************************************)
(* exceptions.py: the class hierarchy, as the set of classes an instance   *)
(* of each class is an instance of.                                        *)
(***************************************************************************)
APIErrorClasses ==
    {"MenderAPIError", "MenderAuthenticationError", "MenderAuthorizationError",
     "MenderNotFoundError", "MenderValidationError", "MenderConflictError",
     "MenderRateLimitError", "MenderServerError"}

MenderClasses == APIErrorClasses \cup {"MenderConnectionError", "MenderTimeoutError"}

\* classes raised by the interpreter or by httpx, outside exceptions.py
ForeignClasses == {"ValueError", "OverflowError", "RuntimeError", "httpx.ReadError"}

Bases(cls) ==
    IF cls = "MenderAPIError" THEN {"MenderAPIError", "MenderError", "Exception"}
    ELSE IF cls \in APIErrorClasses
         THEN {cls, "MenderAPIError", "MenderError", "Exception"}
    ELSE IF cls \in MenderClasses THEN {cls, "MenderError", "Exception"}
    ELSE {cls, "Exception"}

\* an exception instance: its class, status_code and retry_after attributes
\* (None where the class has none) and the attempt that created it
Exc(cls, status_code, retry_after, born) ==
    [cls |-> cls, status_code |-> status_code, retry_after |-> retry_after,
     born |-> born]

\* the fixed status_code each subclass passes to MenderAPIError.__init__
FixedStatus(cls) ==
    CASE cls = "MenderAuthenticationError" -> 401
      [] cls = "MenderAuthorizationError" -> 403
      [] cls = "MenderNotFoundError" -> 404
      [] cls = "MenderValidationError" -> 400
      [] cls = "MenderConflictError" -> 409
      [] cls = "MenderRateLimitError" -> 429

(***************************************************************************)
(* utils/retry.py: RetryConfig                                             *)
(***************************************************************************)
\* mutants: the API base class listed as retryable; the timeout class left out
DefaultRetryableExceptions_WithBase ==
    {"MenderConnectionError", "MenderTimeoutError", "MenderServerError",
     "MenderRateLimitError", "MenderAPIError"}

DefaultRetryableExceptions_NoTimeout ==
    {"MenderConnectionError", "MenderServerError", "MenderRateLimitError"}

DefaultRetryableExceptions ==
    {"MenderConnectionError", "MenderTimeoutError", "MenderServerError",
     "MenderRateLimitError"}

\* RetryConfig(): the dataclass defaults
RetryConfig ==
    [max_retries |-> 3, base_delay |-> Seconds(1), max_delay |-> Seconds(60),
     exponential_base |-> 2, jitter |-> TRUE,
     retryable_exceptions |-> DefaultRetryableExceptions]


\* what a call of a function gives: a value, or an exception of class cls
Returned(v) == [ok |-> TRUE, value |-> v, cls |-> "none"]
Raised(cls) == [ok |-> FALSE, value |-> 0, cls |-> cls]

\* values of random.random(), in hundredths: the jitter factor is 0.5 + rnd/100
RandomValues == {0, 50, 99}

\* exponent range of a Python float (an IEEE double): x**n raises OverflowError
\* once the result reaches 2**1024
FloatMaxExp == 1024

\* base-2 logarithm, exact for the powers of two used as exponential_base
RECURSIVE Log2(_)
Log2(b) == IF b <= 1 THEN 0 ELSE 1 + Log2(b \div 2)

\* self.exponential_base**attempt raises OverflowError
PowOverflows(base, exp) == Log2(base) * exp >= FloatMaxExp

\* base**exp, computed up to cap: a larger power is returned as cap, which the
\* caller's min() with max_delay maps to the same result
RECURSIVE PowUpTo(_, _, _, _)
PowUpTo(base, exp, acc, cap) ==
    IF exp = 0 \/ acc >= cap THEN Min(acc, cap)
    ELSE PowUpTo(base, exp - 1, acc * base, cap)

\* mutant: "if retry_after:" for "if retry_after is not None:"
calculate_delay_Truthy(self, attempt_, retry_after, rnd) ==
    IF retry_after # None /\ retry_after[1] # 0 THEN Returned(Seconds(retry_after[1]))
    ELSE IF PowOverflows(self.exponential_base, attempt_) THEN Raised("OverflowError")
    ELSE LET d == Min(self.base_delay
                        * PowUpTo(self.exponential_base, attempt_, 1, self.max_delay + 1),
                      self.max_delay)
         IN  Returned(IF self.jitter THEN (d * (50 + rnd)) \div 100 ELSE d)

\* RetryConfig.calculate_delay(attempt, retry_after), with rnd the value
\* random.random() returns
calculate_delay(self, attempt_, retry_after, rnd) ==
    IF retry_after # None THEN Returned(Seconds(retry_after[1]))
    ELSE IF PowOverflows(self.exponential_base, attempt_) THEN Raised("OverflowError")
    ELSE LET d == Min(self.base_delay
                        * PowUpTo(self.exponential_base, attempt_, 1, self.max_delay + 1),
                      self.max_delay)
         IN  Returned(IF self.jitter THEN (d * (50 + rnd)) \div 100 ELSE d)

(***************************************************************************)
(* Python's int(str) on a header value: surrounding blanks are stripped,   *)
(* then an optional sign and decimal digits; anything else is ValueError.  *)
(***************************************************************************)
Digits == <<"0", "1", "2", "3", "4", "5", "6", "7", "8", "9">>
IsDigit(c) == \E i \in 1..10 : Digits[i] = c
DigitVal(c) == (CHOOSE i \in 1..10 : Digits[i] = c) - 1

RECURSIVE DigitsValue(_)
DigitsValue(s) ==
    IF s = <<>> THEN 0
    ELSE 10 * DigitsValue(SubSeq(s, 1, Len(s) - 1)) + DigitVal(s[Len(s)])

RECURSIVE Strip(_)
Strip(s) ==
    IF s = <<>> THEN s
    ELSE IF s[1] = " " THEN Strip(Tail(s))
    ELSE IF s[Len(s)] = " " THEN Strip(SubSeq(s, 1, Len(s) - 1))
    ELSE s

int(str) ==
    LET s == Strip(str)
        signed == s # <<>> /\ s[1] \in {"+", "-"}
        body == IF signed THEN Tail(s) ELSE s
    IN  IF body = <<>> \/ \E i \in 1..Len(body) : ~IsDigit(body[i])
        THEN Raised("ValueError")
        ELSE Returned(IF signed /\ s[1] = "-" THEN 0 - DigitsValue(body)
                      ELSE DigitsValue(body))

(***************************************************************************)
(* What the transport (httpx) can do with one attempt.                     *)
(***************************************************************************)
Statuses == {200, 299, 300, 400, 401, 403, 404, 409, 418, 429, 500, 503, 599, 600}

\* values of the Retry-After response header: absent, empty, integers, a date
RetryAfterHeaders ==
    {None, Some(<<>>), Some(<<"0">>), Some(<<"2">>), Some(<<"9", "0">>),
     Some(<<"W", "e", "d">>)}

\* Python values of a response body and of an error message: a pair of the
\* type and the value; the value of a dict is its set of (key, value) pairs,
\* that of a list its length
Str(x) == <<"str", x>>
JInt(n) == <<"int", n>>
JNull == <<"NoneType", 0>>
JList(n) == <<"list", n>>
JDict(f) == <<"dict", f>>

\* bool(v)
Truthy(v) ==
    CASE v[1] = "str" -> v[2] # ""
      [] v[1] = "int" -> v[2] # 0
      [] v[1] = "NoneType" -> FALSE
      [] v[1] = "list" -> v[2] # 0
      [] v[1] = "dict" -> v[2] # {}
      [] OTHER -> TRUE

\* str(v): a string is its own str, the str of anything else is a new string
PyStr(v) == IF v[1] = "str" THEN v ELSE <<"str of", v>>

\* a or b
Or(a, b) == IF Truthy(a) THEN a ELSE b

\* d.get(k)
HasKey(d, k) == \E kv \in d[2] : kv[1] = k

Get(d, k) == IF HasKey(d, k) THEN (CHOOSE kv \in d[2] : kv[1] = k)[2] ELSE JNull

\* a response content: json is Some(v) when it parses as JSON with value v,
\* None when response.json() raises; text is response.text
Content(json, text) == [json |-> json, text |-> text]

EmptyContent == Content(None, Str(""))

\* a response with its status, Retry-After and X-Request-Id headers, content
FullResponse(status_code, retry_after_header, request_id_header, content) ==
    [t |-> "response", status_code |-> status_code,
     retry_after |-> retry_after_header, request_id |-> request_id_header,
     content |-> content]

Response(status_code, retry_after_header) ==
    FullResponse(status_code, retry_after_header, None, EmptyContent)

TransportError(t) ==
    [t |-> t, status_code |-> 0, retry_after |-> None, request_id |-> None,
     content |-> EmptyContent]

\* the header accompanies the statuses servers send it with
Responses ==
    {Response(s, None) : s \in Statuses}
    \cup {Response(s, h) : s \in {429, 503}, h \in RetryAfterHeaders}

TransportOutcomes ==
    Responses
    \cup {TransportError("httpx.ConnectError"), TransportError("httpx.TimeoutException"),
          TransportError("httpx.ReadError")}

\* httpx.Response.is_success
is_success(status_code) == 200 <= status_code /\ status_code <= 299

\* the dict error_classes of _handle_error_response
error_classes ==
    [s \in {400, 401, 403, 404, 409, 429} |->
        CASE s = 400 -> "MenderValidationError"
          [] s = 401 -> "MenderAuthenticationError"
          [] s = 403 -> "MenderAuthorizationError"
          [] s = 404 -> "MenderNotFoundError"
          [] s = 409 -> "MenderConflictError"
          [] s = 429 -> "MenderRateLimitError"]

\* HTTPClient._handle_error_response: the exception it raises for a response,
\* born being the attempt that got the response
_handle_error_response(resp, born) ==
    LET status_code == resp.status_code IN
    IF status_code \in DOMAIN error_classes
    THEN IF status_code = 429
         THEN LET retry_after == resp.retry_after IN
              IF retry_after # None /\ retry_after[1] # <<>>
              THEN LET n == int(retry_after[1]) IN
                   IF n.ok
                   THEN Exc("MenderRateLimitError", Some(429), Some(n.value), born)
                   ELSE Exc(n.cls, None, None, born)
              ELSE Exc("MenderRateLimitError", Some(429), None, born)
         ELSE Exc(error_classes[status_code],
                  Some(FixedStatus(error_classes[status_code])), None, born)
    ELSE IF 500 <= status_code /\ status_code < 600
         THEN Exc("MenderServerError", Some(status_code), None, born)
    ELSE Exc("MenderAPIError", Some(status_code), None, born)

\* mutant: the first of the three fields that is present, whatever its value
_extract_error_message_HasKey(response_body) ==
    IF response_body[1] = "dict"
    THEN IF HasKey(response_body, "error") THEN Get(response_body, "error")
         ELSE IF HasKey(response_body, "message") THEN Get(response_body, "message")
         ELSE IF HasKey(response_body, "Error") THEN Get(response_body, "Error")
         ELSE PyStr(response_body)
    ELSE IF Truthy(response_body) THEN PyStr(response_body)
         ELSE Str("Unknown error")

\* HTTPClient._extract_error_message: the first of the three fields that is
\* truthy, else str of the dict; for another body its str unless it is falsy
_extract_error_message(response_body) ==
    IF response_body[1] = "dict"
    THEN Or(Get(response_body, "error"),
            Or(Get(response_body, "message"),
               Or(Get(response_body, "Error"), PyStr(response_body))))
    ELSE IF Truthy(response_body) THEN PyStr(response_body)
         ELSE Str("Unknown error")

\* try: response_body = response.json() / except Exception: response.text
response_body_of(resp) ==
    IF resp.content.json # None THEN resp.content.json[1] ELSE resp.content.text

\* mutant: request_id not passed on
ErrorAttributes_NoRequestId(resp) ==
    [message |-> _extract_error_message(response_body_of(resp)),
     response_body |-> response_body_of(resp),
     request_id |-> None]

\* request_id = response.headers.get("X-Request-Id"), and the attributes
\* _handle_error_response gives the MenderAPIError it raises
ErrorAttributes(resp) ==
    [message |-> _extract_error_message(response_body_of(resp)),
     response_body |-> response_body_of(resp),
     request_id |-> resp.request_id]

\* HTTPClient._request from client.request on: the response it returns (exc is
\* None) or the exception it raises (exc is one)
_request(outcome, born) ==
    IF outcome.t = "response"
    THEN IF ~is_success(outcome.status_code)
         THEN [exc |-> Some(_handle_error_response(outcome, born))]
         ELSE [exc |-> None]
    ELSE IF outcome.t = "httpx.ConnectError"
         THEN [exc |-> Some(Exc("MenderConnectionError", None, None, born))]
    ELSE IF outcome.t = "httpx.TimeoutException"
         THEN [exc |-> Some(Exc("MenderTimeoutError", None, None, born))]
    ELSE [exc |-> Some(Exc(outcome.t, None, None, born))]

(***************************************************************************)
(* utils/retry.py: retry_with_backoff's wrapper                            *)
(***************************************************************************)
\* mutant: "except Exception as e"
isinstance_Any(e, classes) == TRUE

\* isinstance(e, classes), as "except classes as e" tests it
isinstance(e, classes) == Bases(e.cls) \cap classes # {}

\* mutant: ">" for ">="
BudgetExhausted_OffByOne(cfg, attempt_) == attempt_ > cfg.max_retries

\* "if attempt >= config.max_retries"
BudgetExhausted(cfg, attempt_) == attempt_ >= cfg.max_retries

\* the retry_after the wrapper hands to calculate_delay
RetryAfterOf(e) ==
    IF isinstance(e, {"MenderRateLimitError"}) THEN e.retry_after ELSE None

\* mutant: the delay of the next attempt index
RetryDelay_NextIndex(cfg, attempt_, e, rnd) ==
    calculate_delay(cfg, attempt_ + 1, RetryAfterOf(e), rnd)

\* the delay the wrapper computes after exception e at loop index attempt_
RetryDelay(cfg, attempt_, e, rnd) == calculate_delay(cfg, attempt_, RetryAfterOf(e), rnd)


(***************************************************************************)
(* The executor: HTTPClient and the calls through it                       *)
(***************************************************************************)
Methods == {"GET", "POST", "PUT", "PATCH", "DELETE"}

\* a policy a caller may construct, other than RetryConfig()
CustomRetryConfig ==
    [max_retries |-> 1, base_delay |-> 200, max_delay |-> 300,
     exponential_base |-> 2, jitter |-> FALSE,
     retryable_exceptions |-> DefaultRetryableExceptions]

\* the retry_config argument of HTTPClient(...): None gives RetryConfig()
Policies == {RetryConfig, CustomRetryConfig}

\* header dicts are functions from header names to values
BaseHeaders ==
    [h \in {"Accept", "Content-Type"} |-> "application/json"]

\* f"Bearer {token}"
Bearer(t) == <<"Bearer", t>>

\* HTTPClient._headers
_headers(tok) ==
    IF tok # None /\ tok[1] # ""
    THEN [h \in DOMAIN BaseHeaders \cup {"Authorization"} |->
             IF h = "Authorization" THEN Bearer(tok[1]) ELSE BaseHeaders[h]]
    ELSE BaseHeaders

\* {**a, **(b or {})}
Merge(a, b) ==
    IF b = None THEN a
    ELSE [h \in DOMAIN a \cup DOMAIN b[1] |->
             IF h \in DOMAIN b[1] THEN b[1][h] ELSE a[h]]

NumCalls == 2

CallIds == 1..NumCalls

\* a call that has not started: the locals of its wrapper and of its _request
NewCall ==
    [op |-> "none", pc |-> "new", attempt |-> 0, nattempts |-> 0, nsleeps |-> 0,
     response |-> None, error |-> None, last_exception |-> None, result |-> None,
     delay |-> None, client |-> 0, overlapped |-> FALSE]

\* no concurrent call has started
InitCallsIdle == calls = [c \in CallIds |-> NewCall]

\* no credential, no call in progress
InitWire ==
    /\ _token = None
    /\ token = None
    /\ headers = None
    /\ client = 0
    /\ request_headers = None
    /\ error_detail = None

\* HTTPClient.__init__, with retry_with_backoff() evaluated with no argument
\* at each decorated method: config is RetryConfig()
InitExecutor ==
    /\ retry_config \in Policies
    /\ config = RetryConfig
    /\ _client = 0
    /\ open_sessions = {}
    /\ nsessions = 0
    /\ pc = "idle"
    /\ method = "none"
    /\ attempt = 0
    /\ response = None
    /\ error = None
    /\ last_exception = None
    /\ result = None
    /\ nattempts = 0
    /\ nsleeps = 0
    /\ delay = None
    /\ InitWire

InitDelayIdle ==
    /\ d_self = RetryConfig
    /\ d_attempt = 0
    /\ d_retry_after = None
    /\ d_out = None
    /\ d_pc = "unused"

\* no pagination in progress
InitPageIdle ==
    /\ p_iter = "none"
    /\ p_per_page = 0
    /\ p_page = 0
    /\ p_pc = "unused"
    /\ p_result = None
    /\ p_next = 0
    /\ p_yielded = <<>>
    /\ p_fetched = <<>>
    /\ p_served = <<>>
    /\ p_header = None
    /\ p_raised = None
    /\ p_failed = 0

\* no resource creation in progress
InitLocationIdle ==
    /\ l_method = "none"
    /\ l_headers = None
    /\ l_id = None
    /\ l_pc = "unused"

\* no close() in progress
InitCloserIdle == closer = [pc |-> "idle", quiet |-> FALSE]

\* HTTPClient.__init__ with its defaults: base_url, timeout, verify_ssl
InitSettings ==
    /\ base_url = "https://hosted.mender.io"
    /\ timeout = Seconds(30)
    /\ verify_ssl = TRUE

InitOtherIdle == InitLocationIdle /\ InitCloserIdle /\ InitSettings

\* no MenderClient in use
InitFacadeIdle ==
    /\ _http_client = 0
    /\ _inventory = 0
    /\ _deployments = 0
    /\ executors = <<>>
    /\ subclients = <<>>
    /\ held = {}
    /\ last_request = None

Init ==
    /\ InitExecutor
    /\ InitDelayIdle
    /\ InitPageIdle
    /\ InitCallsIdle
    /\ InitFacadeIdle
    /\ InitOtherIdle

\* mutant: a session created at every call of _get_client
_get_client_Always ==
    /\ _client' = nsessions + 1
    /\ open_sessions' = open_sessions \cup {nsessions + 1}
    /\ nsessions' = nsessions + 1

\* HTTPClient._get_client: the session is created when there is none open
_get_client ==
    IF _client = 0 \/ _client \notin open_sessions
    THEN /\ _client' = nsessions + 1
         /\ open_sessions' = open_sessions \cup {nsessions + 1}
         /\ nsessions' = nsessions + 1
    ELSE UNCHANGED <<_client, open_sessions, nsessions>>

\* a caller invokes get/post/put/patch/delete with extra headers h: the wrapper
\* starts, and with an empty range(config.max_retries + 1) falls through to
\* its last lines
CallWith(m, h) ==
    /\ pc = "idle"
    /\ method' = m
    /\ headers' = h
    /\ attempt' = 0
    /\ last_exception' = None
    /\ IF 0 < config.max_retries + 1
       THEN /\ pc' = "func"
            /\ result' = None
       ELSE /\ pc' = "raised"
            /\ result' = Some(Exc("RuntimeError", None, None, 0))
    /\ UNCHANGED <<retry_config, config, _client, open_sessions, nsessions, response,
                   error, nattempts, nsleeps, delay>>
    /\ UNCHANGED <<_token, token, client, request_headers, error_detail>>
    /\ UNCHANGED non_exec_vars

\* the same without extra headers
Call(m) == CallWith(m, None)

\* one iteration of the wrapper's loop: func (that is _request: _get_client,
\* the request headers, client.request, classification) and the except clause
\* up to asyncio.sleep, the transport answering with one of outcomes
AttemptFrom(outcomes) ==
    /\ pc = "func"
    /\ \E outcome \in outcomes, rnd \in RandomValues :
         LET r == _request(outcome, nattempts + 1) IN
         /\ response' = Some(outcome)
         /\ nattempts' = nattempts + 1
         /\ error' = r.exc
         /\ error_detail' = IF r.exc # None /\ r.exc[1].cls \in APIErrorClasses
                             THEN Some(ErrorAttributes(outcome))
                             ELSE None
         /\ IF r.exc = None
            THEN /\ pc' = "returned"
                 /\ result' = Some(outcome)
                 /\ UNCHANGED <<last_exception, nsleeps, delay>>
            ELSE LET e == r.exc[1] IN
                 IF ~isinstance(e, config.retryable_exceptions)
                 THEN /\ pc' = "raised"
                      /\ result' = Some(e)
                      /\ UNCHANGED <<last_exception, nsleeps, delay>>
                 ELSE /\ last_exception' = Some(e)
                      /\ IF BudgetExhausted(config, attempt)
                         THEN /\ pc' = "raised"
                              /\ result' = Some(e)
                              /\ UNCHANGED <<nsleeps, delay>>
                         ELSE LET d == RetryDelay(config, attempt, e, rnd) IN
                              IF d.ok
                              THEN /\ pc' = "sleep"
                                   /\ delay' = Some(d.value)
                                   /\ nsleeps' = nsleeps + 1
                                   /\ result' = None
                              ELSE /\ pc' = "raised"
                                   /\ result' = Some(Exc(d.cls, None, None, nattempts + 1))
                                   /\ UNCHANGED <<nsleeps, delay>>
    /\ _get_client
    /\ client' = _client'
    /\ request_headers' = Some(Merge(_headers(token), headers))
    /\ UNCHANGED <<retry_config, config, method, attempt, _token, token, headers>>
    /\ UNCHANGED non_exec_vars

Attempt == AttemptFrom(TransportOutcomes)

\* asyncio.sleep returns: the loop goes on, or ends and the wrapper's last
\* lines raise
Wake ==
    /\ pc = "sleep"
    /\ attempt' = attempt + 1
    /\ IF attempt + 1 < config.max_retries + 1
       THEN /\ pc' = "func"
            /\ result' = None
       ELSE /\ pc' = "raised"
            /\ result' = IF last_exception # None THEN last_exception
                         ELSE Some(Exc("RuntimeError", None, None, 0))
    /\ UNCHANGED <<retry_config, config, _client, open_sessions, nsessions, method,
                   response, error, last_exception, nattempts, nsleeps, delay>>
    /\ UNCHANGED wire_vars
    /\ UNCHANGED non_exec_vars

\* the caller has the call's result; the executor is free for the next call
Finish ==
    /\ pc \in {"returned", "raised"}
    /\ pc' = "idle"
    /\ method' = "none"
    /\ attempt' = 0
    /\ response' = None
    /\ error' = None
    /\ last_exception' = None
    /\ result' = None
    /\ nattempts' = 0
    /\ nsleeps' = 0
    /\ delay' = None
    /\ headers' = None
    /\ client' = 0
    /\ request_headers' = None
    /\ error_detail' = None
    /\ UNCHANGED <<retry_config, config, _client, open_sessions, nsessions, _token,
                   token>>
    /\ UNCHANGED non_exec_vars

\* mutant: the reference cleared without aclose()
Close_KeepSession ==
    /\ pc = "idle"
    /\ nsessions < MaxSessions
    /\ _client' = 0
    /\ UNCHANGED open_sessions
    /\ UNCHANGED <<retry_config, config, nsessions, pc, method, attempt, response,
                   error, last_exception, result, nattempts, nsleeps, delay>>
    /\ UNCHANGED wire_vars
    /\ UNCHANGED non_exec_vars

\* HTTPClient.close, between calls
Close ==
    /\ pc = "idle"
    /\ nsessions < MaxSessions
    /\ IF _client # 0 /\ _client \in open_sessions
       THEN /\ open_sessions' = open_sessions \ {_client}
            /\ _client' = 0
       ELSE UNCHANGED <<_client, open_sessions>>
    /\ UNCHANGED <<retry_config, config, nsessions, pc, method, attempt, response,
                   error, last_exception, result, nattempts, nsleeps, delay>>
    /\ UNCHANGED wire_vars
    /\ UNCHANGED non_exec_vars

\* HTTPClient.__aenter__: await self._get_client()
__aenter__ ==
    /\ pc = "idle"
    /\ _get_client
    /\ UNCHANGED <<retry_config, config, pc, method, attempt, response, error,
                   last_exception, result, nattempts, nsleeps, delay>>
    /\ UNCHANGED wire_vars
    /\ UNCHANGED non_exec_vars

\* HTTPClient.__aexit__: await self.close()
__aexit__ == Close

Next ==
    \/ \E m \in Methods : Call(m)
    \/ Attempt
    \/ Wake
    \/ Finish
    \/ Close
    \/ __aenter__
    \/ __aexit__

\* an HTTPClient and the calls made through it, one at a time
Spec == Init /\ [][Next]_vars

\* retry_with_backoff(config) around the same func, for the configs a caller
\* may pass it: the executor's own wrappers are the case config = RetryConfig()
InitRetry ==
    /\ InitFacadeIdle
    /\ InitOtherIdle
    /\ InitDelayIdle
    /\ InitPageIdle
    /\ InitCallsIdle
    /\ retry_config \in Policies
    /\ config \in Policies
    /\ _client = 0
    /\ open_sessions = {}
    /\ nsessions = 0
    /\ pc = "idle"
    /\ method = "none"
    /\ attempt = 0
    /\ response = None
    /\ error = None
    /\ last_exception = None
    /\ result = None
    /\ nattempts = 0
    /\ nsleeps = 0
    /\ delay = None
    /\ InitWire

SpecRetry == InitRetry /\ [][Next]_vars


(***************************************************************************)
(* The credential: MenderClient.set_token while calls go through the       *)
(* client's executor                                                       *)
(***************************************************************************)
\* the token argument of MenderClient(...)
Tokens == {None, Some(""), Some("t1"), Some("t2")}

\* the headers argument of a call
ExtraHeaders ==
    {None,
     Some([h \in {"X-Trace"} |-> "1"]),
     Some([h \in {"Authorization"} |-> <<"Basic", "x">>])}

TokenOutcomes ==
    {Response(200, None), Response(404, None), Response(503, None),
     TransportError("httpx.ConnectError")}

\* MenderClient.__init__ and _ensure_http_client: the executor gets the token
InitToken ==
    /\ InitFacadeIdle
    /\ InitOtherIdle
    /\ InitDelayIdle
    /\ InitPageIdle
    /\ InitCallsIdle
    /\ retry_config = RetryConfig
    /\ config = RetryConfig
    /\ _client = 0
    /\ open_sessions = {}
    /\ nsessions = 0
    /\ pc = "idle"
    /\ method = "none"
    /\ attempt = 0
    /\ response = None
    /\ error = None
    /\ last_exception = None
    /\ result = None
    /\ nattempts = 0
    /\ nsleeps = 0
    /\ delay = None
    /\ _token \in Tokens
    /\ token = _token
    /\ headers = None
    /\ client = 0
    /\ request_headers = None
    /\ error_detail = None

\* mutant: the token kept by MenderClient and not given to its executor
set_token_ClientOnly(t) ==
    /\ _token' = Some(t)
    /\ UNCHANGED token
    /\ UNCHANGED <<retry_config, config, _client, open_sessions, nsessions, pc,
                   method, attempt, response, error, last_exception, result,
                   nattempts, nsleeps, delay, headers, client, request_headers,
                   error_detail>>
    /\ UNCHANGED non_exec_vars

\* MenderClient.set_token, at any moment of a call
set_token(t) ==
    /\ _token' = Some(t)
    /\ token' = Some(t)
    /\ UNCHANGED <<retry_config, config, _client, open_sessions, nsessions, pc,
                   method, attempt, response, error, last_exception, result,
                   nattempts, nsleeps, delay, headers, client, request_headers,
                   error_detail>>
    /\ UNCHANGED non_exec_vars

TokenNext ==
    \/ \E m \in {"GET", "POST"}, h \in ExtraHeaders : CallWith(m, h)
    \/ AttemptFrom(TokenOutcomes)
    \/ Wake
    \/ Finish
    \/ \E t \in {"", "t1", "t2"} : set_token(t)

SpecToken == InitToken /\ [][TokenNext]_vars


(***************************************************************************)
(* The attributes of API errors: calls whose responses carry a body and an *)
(* X-Request-Id header                                                     *)
(***************************************************************************)
BodyKeys == {"error", "message", "Error", "code"}

\* the values a JSON object of a response may have under a key
FieldValues(k) ==
    CASE k = "error" -> {JNull, Str(""), Str("bad input")}
      [] k = "message" -> {Str(""), Str("msg")}
      [] k = "Error" -> {Str("Err")}
      [] k = "code" -> {JInt(7)}

\* JSON objects: at most one value under each key
DictBodies ==
    {JDict(d) : d \in
        {kvs \in SUBSET UNION {{<<k, v>> : v \in FieldValues(k)} : k \in BodyKeys} :
            \A a \in kvs, b \in kvs : a[1] = b[1] => a = b}}

\* JSON values that are no object
OtherJsonBodies == {JNull, JInt(0), JInt(7), JList(0), JList(2), Str("js")}

\* the content of a response whose body is the JSON text of v
JsonContent(v) == Content(Some(v), <<"text of", v>>)

DetailContents ==
    {JsonContent(v) : v \in DictBodies \cup OtherJsonBodies}
    \cup {Content(None, Str(t)) : t \in {"", "oops"}}

RequestIds == {None, Some("req-1"), Some("req-2")}

\* every body at status 400; the other statuses with and without request id
\* and with a few bodies
DetailOutcomes ==
    {FullResponse(400, None, None, c) : c \in DetailContents}
    \cup {FullResponse(st, None, rid, c) :
            st \in {200, 400, 418, 429, 503}, rid \in RequestIds,
            c \in {EmptyContent, Content(None, Str("oops")),
                   JsonContent(JDict({<<"code", JInt(7)>>})),
                   JsonContent(JDict({<<"error", Str("bad input")>>}))}}
    \cup {TransportError("httpx.ConnectError")}

InitDetail == Init /\ retry_config = RetryConfig

DetailNext ==
    \/ \E m \in {"GET"} : Call(m)
    \/ AttemptFrom(DetailOutcomes)
    \/ Wake
    \/ Finish

SpecDetail == InitDetail /\ [][DetailNext]_vars


(***************************************************************************)
(* Concurrent calls through one executor: each call is a task running the  *)
(* wrapper of its operation; the tasks interleave at their awaits          *)
(***************************************************************************)
Ops == {"get", "post", "put", "patch", "delete", "download"}

\* the decorated method an operation runs: download awaits self.get
WrappedMethod(op) == IF op = "download" THEN "get" ELSE op

\* mutant: post decorated with a policy that does not retry
WrapperConfig_NoRetryPost(m) ==
    IF m = "post" THEN [RetryConfig EXCEPT !.max_retries = 0] ELSE RetryConfig

\* the config of the wrapper of a decorated method: each @retry_with_backoff()
\* builds its own RetryConfig()
WrapperConfig(m) == RetryConfig

\* what the operation hands its caller for a successful response
ReturnValue(op, resp) == IF op = "download" THEN resp.content ELSE resp

\* the operation is invoked: its wrapper starts
StartCall(r, op, overlapped) ==
    IF 0 < WrapperConfig(WrappedMethod(op)).max_retries + 1
    THEN [r EXCEPT !.op = op, !.pc = "func", !.overlapped = overlapped]
    ELSE [r EXCEPT !.op = op, !.pc = "raised", !.overlapped = overlapped,
                   !.result = Some(Exc("RuntimeError", None, None, 0))]

\* func up to "await client.request(...)": the request is sent on session cl
SendCall(r, cl) == [r EXCEPT !.pc = "wait", !.client = cl]

\* client.request completes with outcome: the rest of _request, and the
\* wrapper's return or except clause up to "await asyncio.sleep(delay)"
ReceiveCall(r, outcome, rnd) ==
    LET cfg == WrapperConfig(WrappedMethod(r.op))
        x == _request(outcome, r.nattempts + 1)
        r1 == [r EXCEPT !.response = Some(outcome), !.nattempts = @ + 1,
                        !.error = x.exc]
    IN  IF x.exc = None
        THEN [r1 EXCEPT !.pc = "returned",
                        !.result = Some(ReturnValue(r.op, outcome))]
        ELSE LET e == x.exc[1] IN
             IF ~ isinstance(e, cfg.retryable_exceptions)
             THEN [r1 EXCEPT !.pc = "raised", !.result = Some(e)]
             ELSE IF BudgetExhausted(cfg, r.attempt)
             THEN [r1 EXCEPT !.last_exception = Some(e), !.pc = "raised",
                             !.result = Some(e)]
             ELSE LET d == RetryDelay(cfg, r.attempt, e, rnd) IN
                  IF d.ok
                  THEN [r1 EXCEPT !.last_exception = Some(e), !.pc = "sleep",
                                  !.delay = Some(d.value), !.nsleeps = @ + 1]
                  ELSE [r1 EXCEPT !.last_exception = Some(e), !.pc = "raised",
                                  !.result = Some(Exc(d.cls, None, None,
                                                      r.nattempts + 1))]

\* asyncio.sleep returns: the next iteration, or the wrapper's last lines
WakeCall(r) ==
    IF r.attempt + 1 < WrapperConfig(WrappedMethod(r.op)).max_retries + 1
    THEN [r EXCEPT !.attempt = @ + 1, !.pc = "func"]
    ELSE [r EXCEPT !.attempt = @ + 1, !.pc = "raised",
                   !.result = IF r.last_exception # None THEN r.last_exception
                              ELSE Some(Exc("RuntimeError", None, None, 0))]

\* mutant: time.sleep(delay), which stops every task while one sleeps
Blocked_TimeSleep(c) == \E d \in CallIds \ {c} : calls[d].pc = "sleep"

\* "await asyncio.sleep(delay)" suspends the task that awaits it and no other
Blocked(c) == FALSE

ConcOps == {"get", "post"}

ConcOutcomes == {Response(200, None), Response(404, None), Response(503, None)}

\* the jitter draw of the concurrent calls
ConcRandomValues == {50}

\* what a step of a concurrent call leaves alone
ConcFrame ==
    /\ UNCHANGED <<retry_config, config, single_call_vars, wire_vars>>
    /\ UNCHANGED <<delay_vars, page_vars, facade_vars, other_vars>>

Start(c) ==
    /\ calls[c].pc = "new"
    /\ ~ Blocked(c)
    /\ \E op \in ConcOps :
         calls' = [calls EXCEPT ![c] =
                     StartCall(@, op, \E d \in CallIds : calls[d].pc = "sleep")]
    /\ UNCHANGED <<_client, open_sessions, nsessions>>
    /\ ConcFrame

Send(c) ==
    /\ calls[c].pc = "func"
    /\ ~ Blocked(c)
    /\ _get_client
    /\ calls' = [calls EXCEPT ![c] = SendCall(@, _client')]
    /\ ConcFrame

Receive(c) ==
    /\ calls[c].pc = "wait"
    /\ ~ Blocked(c)
    /\ \E outcome \in ConcOutcomes, rnd \in ConcRandomValues :
         calls' = [calls EXCEPT ![c] = ReceiveCall(@, outcome, rnd)]
    /\ UNCHANGED <<_client, open_sessions, nsessions>>
    /\ ConcFrame

WakeUp(c) ==
    /\ calls[c].pc = "sleep"
    /\ calls' = [calls EXCEPT ![c] = WakeCall(@)]
    /\ UNCHANGED <<_client, open_sessions, nsessions>>
    /\ ConcFrame

\* the next step of call c, whichever it is
StepOf(c) == Start(c) \/ Send(c) \/ Receive(c) \/ WakeUp(c)

ConcNext ==
    \/ \E c \in CallIds : Start(c)
    \/ \E c \in CallIds : Send(c)
    \/ \E c \in CallIds : Receive(c)
    \/ \E c \in CallIds : WakeUp(c)

InitConc == Init /\ retry_config = RetryConfig

SpecConc == InitConc /\ [][ConcNext]_vars


(***************************************************************************)
(* The operations side by side: calls of different operations that get the *)
(* same transport outcomes and jitter draws, step by step                  *)
(***************************************************************************)
\* call 1 is a get, the others are any operation
InitTwin ==
    /\ InitExecutor
    /\ retry_config = RetryConfig
    /\ InitFacadeIdle
    /\ InitOtherIdle
    /\ InitDelayIdle
    /\ InitPageIdle
    /\ \E ops \in [CallIds -> Ops] :
         /\ ops[1] = "get"
         /\ calls = [c \in CallIds |-> StartCall(NewCall, ops[c], FALSE)]

TwinSend ==
    /\ \A c \in CallIds : calls[c].pc = "func"
    /\ _get_client
    /\ calls' = [c \in CallIds |-> SendCall(calls[c], _client')]
    /\ ConcFrame

TwinReceive ==
    /\ \A c \in CallIds : calls[c].pc = "wait"
    /\ \E outcome \in TransportOutcomes, rnd \in RandomValues :
         calls' = [c \in CallIds |-> ReceiveCall(calls[c], outcome, rnd)]
    /\ UNCHANGED <<_client, open_sessions, nsessions>>
    /\ ConcFrame

TwinWake ==
    /\ \A c \in CallIds : calls[c].pc = "sleep"
    /\ calls' = [c \in CallIds |-> WakeCall(calls[c])]
    /\ UNCHANGED <<_client, open_sessions, nsessions>>
    /\ ConcFrame

TwinNext == TwinSend \/ TwinReceive \/ TwinWake

SpecTwin == InitTwin /\ [][TwinNext]_vars


(***************************************************************************)
(* RetryConfig.calculate_delay as a function of its own: any caller may    *)
(* construct a RetryConfig and call it.                                    *)
(***************************************************************************)
\* the RetryConfig objects calculate_delay is called on
DelayConfigs ==
    [max_retries : {3}, base_delay : {500, Seconds(1)},
     max_delay : {300, Seconds(60)}, exponential_base : {2, 4},
     jitter : BOOLEAN, retryable_exceptions : {DefaultRetryableExceptions}]

\* values of the retry_after argument
RetryAfters == {None, Some(0), Some(2), Some(90)}

InitDelay ==
    /\ InitFacadeIdle
    /\ InitOtherIdle
    /\ InitPageIdle
    /\ InitCallsIdle
    /\ d_self \in DelayConfigs
    /\ d_attempt = 0
    /\ d_retry_after = None
    /\ d_out = None
    /\ d_pc = "args"
    /\ retry_config = RetryConfig
    /\ config = RetryConfig
    /\ _client = 0
    /\ open_sessions = {}
    /\ nsessions = 0
    /\ pc = "idle"
    /\ method = "none"
    /\ attempt = 0
    /\ response = None
    /\ error = None
    /\ last_exception = None
    /\ result = None
    /\ nattempts = 0
    /\ nsleeps = 0
    /\ delay = None
    /\ InitWire

\* d_self.calculate_delay(n, ra) is called and returns or raises
CalculateDelay ==
    /\ d_pc = "args"
    /\ \E n \in 0..MaxAttempt, ra \in RetryAfters, rnd \in RandomValues :
        /\ d_attempt' = n
        /\ d_retry_after' = ra
        /\ d_out' = Some(calculate_delay(d_self, n, ra, rnd))
        /\ d_pc' = "done"
        /\ UNCHANGED d_self
        /\ UNCHANGED <<exec_vars, page_vars, calls, facade_vars, other_vars>>

NextDelay == CalculateDelay

SpecDelay == InitDelay /\ [][NextDelay]_vars

\* ---------------------------------------------------------------------------
\* Pagination: iter_devices, iter_deployments, iter_artifacts
\* ---------------------------------------------------------------------------

MaxPages == 4

Iterators == {"iter_devices", "iter_deployments", "iter_artifacts"}

\* per_page arguments tried
PerPages == {1, 2, 3, 20}

\* how many items the server may put in one page when asked for s: none, one,
\* five, one short of s, s, and one more than it was asked for
PageSizes(s) == {n \in {0, 1, 5, s - 1, s, s + 1} : n >= 0}

\* the items of a server page: the i-th item of page k
ServerPage(k, n) == [i \in 1..n |-> <<k, i>>]

\* the spellings of a header name a server may use, and their lower case
HeaderNames == {"X-Total-Count", "x-total-count", "X-TOTAL-COUNT", "X-Other"}
lower(name) ==
    IF name \in {"X-Total-Count", "x-total-count", "X-TOTAL-COUNT"}
    THEN "x-total-count" ELSE "x-other"

\* the values of the header tried: "", "0", "3", "45", "abc", "4.5"
TotalCountValues ==
    {<<>>, <<"0">>, <<"3">>, <<"4", "5">>, <<"a", "b", "c">>, <<"4", ".", "5">>}

\* what a response carries: no such header, or one (name, value) pair
TotalCountHeaders ==
    {None} \cup {Some(<<"X-Total-Count", v>>) : v \in TotalCountValues}
           \cup {Some(<<n, <<"4", "5">> >>) : n \in HeaderNames}

\* mutant: the names kept as the server spelled them
dict_KeepCase(raw) == IF raw = None THEN {} ELSE {raw[1]}

\* dict(response.headers): httpx.Headers iterates over lower-cased names;
\* the dict is the set of its (name, value) pairs
dict(raw) == IF raw = None THEN {} ELSE {<<lower(raw[1][1]), raw[1][2]>>}

\* dict.get(name): None or the value
headers_get(d, name) ==
    IF \E kv \in d : kv[1] = name
    THEN Some((CHOOSE kv \in d : kv[1] = name)[2])
    ELSE None

\* a or b on two optional strings: a unless it is None or ""
or_header(a, b) == IF a # None /\ a[1] # <<>> THEN a ELSE b

\* the first lines of from_response: header_value = headers.get("X-Total-Count")
\* or headers.get("x-total-count"); int(header_value) when it is truthy, the
\* ValueError passed over
total_count_of(hdrs) ==
    LET header_value == or_header(headers_get(hdrs, "X-Total-Count"),
                                  headers_get(hdrs, "x-total-count"))
    IN  IF header_value # None /\ header_value[1] # <<>>
        THEN LET n == int(header_value[1])
             IN  IF n.ok THEN Some(n.value) ELSE None
        ELSE None

\* mutant: ">" for ">="
from_response_Strict(items, hdrs, page_, per_page_) ==
    [items |-> items, total_count |-> total_count_of(hdrs), page |-> page_,
     per_page |-> per_page_, has_more |-> Len(items) > per_page_]

\* PaginatedResponse.from_response
from_response(items, hdrs, page_, per_page_) ==
    [items |-> items, total_count |-> total_count_of(hdrs), page |-> page_,
     per_page |-> per_page_, has_more |-> Len(items) >= per_page_]

\* the exceptions a list method lets through: a non-retryable error of the
\* first attempt, a retryable one of the last
FetchErrors ==
    {Exc("MenderNotFoundError", Some(404), None, 1),
     Exc("MenderServerError", Some(503), None, 4),
     Exc("MenderConnectionError", None, None, 4)}

\* mutant: the iteration also ends once X-Total-Count items were asked for
IterBreaks_ByTotalCount(res, per_page_) ==
    \/ (~ res.has_more) \/ Len(res.items) < per_page_
    \/ (res.total_count # None /\ res.page * per_page_ >= res.total_count[1])

\* the test after the for loop: break
IterBreaks(res, per_page_) ==
    (~ res.has_more) \/ Len(res.items) < per_page_

\* mutant: a page number skipped
NextPage_Skip(page_) == page_ + 2

\* mutant: the iteration starts at the second page
FirstPage_Second == 1 + 1

\* page = 1, the first line of an iterator's body
FirstPage == 1

\* iterators that fail before the one observed
MaxFailed == 1

\* page += 1
NextPage(page_) == page_ + 1

InitPage ==
    /\ InitExecutor
    /\ InitCallsIdle
    /\ retry_config = RetryConfig
    /\ InitFacadeIdle
    /\ InitOtherIdle
    /\ InitDelayIdle
    /\ p_iter \in Iterators
    /\ p_per_page \in PerPages
    /\ p_page = FirstPage
    /\ p_pc = "fetch"
    /\ p_result = None
    /\ p_next = 0
    /\ p_yielded = <<>>
    /\ p_fetched = <<>>
    /\ p_served = <<>>
    /\ p_header = None
    /\ p_raised = None
    /\ p_failed = 0

\* result = await self.list_X(page=page, per_page=per_page): the server answers
\* with a page of n items, or the call raises and the iteration ends with it
Fetch ==
    /\ p_pc = "fetch"
    /\ p_fetched' = Append(p_fetched, <<p_page, p_per_page>>)
    /\ \/ \E n \in PageSizes(p_per_page), h \in TotalCountHeaders :
             /\ p_result' = Some(from_response(ServerPage(p_page, n), dict(h),
                                               p_page, p_per_page))
             /\ p_served' = Append(p_served, ServerPage(p_page, n))
             /\ p_header' = h
             /\ p_next' = 1
             /\ p_pc' = "yield"
             /\ UNCHANGED p_raised
       \/ \E e \in FetchErrors :
             /\ p_pc' = "raised"
             /\ p_raised' = Some(e)
             /\ UNCHANGED <<p_result, p_served, p_next, p_header>>
    /\ UNCHANGED <<p_iter, p_per_page, p_page, p_yielded, p_failed>>
    /\ UNCHANGED <<exec_vars, delay_vars, calls, facade_vars, other_vars>>

\* for item in result.items: yield item
Yield ==
    /\ p_pc = "yield"
    /\ p_next <= Len(p_result[1].items)
    /\ p_yielded' = Append(p_yielded, p_result[1].items[p_next])
    /\ p_next' = p_next + 1
    /\ UNCHANGED <<p_iter, p_per_page, p_page, p_pc, p_result, p_fetched,
                   p_served, p_header, p_raised, p_failed>>
    /\ UNCHANGED <<exec_vars, delay_vars, calls, facade_vars, other_vars>>

\* the for loop is over: break, or page += 1 and go round the while loop
Advance ==
    /\ p_pc = "yield"
    /\ p_next > Len(p_result[1].items)
    /\ IF IterBreaks(p_result[1], p_per_page)
          THEN p_pc' = "done" /\ p_page' = p_page
          ELSE /\ p_page < MaxPages
               /\ p_page' = NextPage(p_page)
               /\ p_pc' = "fetch"
    /\ UNCHANGED <<p_iter, p_per_page, p_result, p_next, p_yielded, p_fetched,
                   p_served, p_header, p_raised, p_failed>>
    /\ UNCHANGED <<exec_vars, delay_vars, calls, facade_vars, other_vars>>

PageNext == Fetch \/ Yield \/ Advance

SpecPage == InitPage /\ [][PageNext]_vars

\* the iterator has raised and the caller calls iter_X again: a generator
\* with locals of its own, and nothing fetched or yielded yet
NewIterator ==
    /\ p_pc = "raised"
    /\ p_failed < MaxFailed
    /\ p_failed' = p_failed + 1
    /\ p_page' = FirstPage
    /\ p_pc' = "fetch"
    /\ p_result' = None
    /\ p_next' = 0
    /\ p_yielded' = <<>>
    /\ p_fetched' = <<>>
    /\ p_served' = <<>>
    /\ p_header' = None
    /\ p_raised' = None
    /\ UNCHANGED <<p_iter, p_per_page>>
    /\ UNCHANGED <<exec_vars, delay_vars, calls, facade_vars, other_vars>>

IteratorsNext == Fetch \/ Yield \/ Advance \/ NewIterator

SpecIterators == InitPage /\ [][IteratorsNext]_vars

\* the consumer iterates to the end ("async for" with no break) and the
\* server answers every request: a step that stays possible is taken
SpecPageLive == SpecPage /\ WF_vars(PageNext)

\* min(base_delay * exponential_base^n, max_delay) over the integers: multiply
\* n times by exponential_base >= 1, stopping at max_delay once it is reached
RECURSIVE CappedFrom(_, _, _)
CappedFrom(cfg, n, acc) ==
    IF n = 0 \/ acc >= cfg.max_delay THEN Min(acc, cfg.max_delay)
    ELSE CappedFrom(cfg, n - 1, acc * cfg.exponential_base)

CappedExponential(cfg, n) == CappedFrom(cfg, n, cfg.base_delay)

\* C7: for every configuration, jitter or not, and every attempt count n, the
\* delay calculate_delay(n) returns with no server-suggested delay is at most
\* max_delay.
C7_DelayAtMostMax ==
    (d_pc = "done" /\ d_retry_after = None /\ d_out[1].ok)
        => d_out[1].value <= d_self.max_delay

\* C8: with jitter disabled, base_delay > 0 and exponential_base > 1,
\* calculate_delay(n) is min(base_delay * exponential_base^n, max_delay) for
\* every n >= 0, non-decreasing in n, strictly increasing while the uncapped
\* value is below max_delay, and max_delay from the cap on.
C8_ExponentialUntilCap ==
    (/\ d_pc = "done"
     /\ d_retry_after = None
     /\ ~d_self.jitter
     /\ d_self.base_delay > 0
     /\ d_self.exponential_base > 1)
        => LET next == calculate_delay(d_self, d_attempt + 1, None, 0) IN
           /\ d_out[1] = Returned(CappedExponential(d_self, d_attempt))
           /\ next.ok
           /\ next.value >= d_out[1].value
           /\ CappedExponential(d_self, d_attempt) < d_self.max_delay
                 => next.value > d_out[1].value
           /\ d_out[1].value = d_self.max_delay => next.value = d_self.max_delay


(***************************************************************************)
(* Claims about the executor and the retry wrapper                         *)
(***************************************************************************)
\* the four retryable kinds of the specification
RetryableKinds ==
    {"MenderConnectionError", "MenderTimeoutError", "MenderServerError",
     "MenderRateLimitError"}

\* the call is in the state the latest attempt left it in
AfterAttempt == response # None /\ nattempts = attempt + 1 /\ pc # "func"

\* dl is a delay policy cfg allows at attempt index i with no server-suggested
\* delay: min(base * growth^i, max), times a factor in [0.5, 1.5) under jitter
IsExponentialDelay(cfg, i, dl) ==
    LET d == CappedExponential(cfg, i) IN
    IF cfg.jitter THEN 2 * dl >= d /\ 2 * dl < 3 * d ELSE dl = d

\* dl is a delay policy cfg allows at attempt index i after exception e
IsPolicyDelay(cfg, i, e, dl) ==
    IF e.cls = "MenderRateLimitError" /\ e.retry_after # None
    THEN dl = 1000 * e.retry_after[1]
    ELSE IsExponentialDelay(cfg, i, dl)

\* C1: when every attempt of a call ends in a retryable failure, exactly
\* max_retries + 1 attempts are made with max_retries sleeps between them, and
\* the call raises the last attempt's own error; 503 throughout gives a
\* MenderServerError with status 503.
C1_ExhaustionRaisesLastError ==
    (pc = "raised" /\ error # None /\ error[1].cls \in RetryableKinds)
        => /\ nattempts = config.max_retries + 1
           /\ nsleeps = config.max_retries
           /\ result = error
           /\ result[1].born = nattempts
           /\ response[1] = Response(503, None)
                 => result[1] = Exc("MenderServerError", Some(503), None, nattempts)

C1_Witness ==
    /\ pc = "raised"
    /\ method = "POST"
    /\ config.max_retries = 3
    /\ nattempts = 4
    /\ nsleeps = 3
    /\ response = Some(Response(503, None))
    /\ result = Some(Exc("MenderServerError", Some(503), None, 4))

\* C2: when the first j attempts fail retryably and attempt j+1 gets a 2xx
\* response, the call returns that response after exactly j+1 attempts and j
\* sleeps, and the sleep before the i-th retry is the policy's delay for
\* attempt index i-1.
C2_SuccessAfterRetries ==
    /\ pc = "returned"
          => /\ result = response
             /\ is_success(result[1].status_code)
             /\ attempt <= config.max_retries
             /\ nattempts = attempt + 1
             /\ nsleeps = attempt
    /\ pc = "sleep"
          => /\ nattempts = attempt + 1
             /\ nsleeps = attempt + 1
             /\ IsPolicyDelay(config, attempt, error[1], delay[1])

C2_Witness ==
    /\ pc = "returned"
    /\ config.max_retries = 3
    /\ attempt = 3
    /\ nattempts = 4
    /\ nsleeps = 3
    /\ result = Some(Response(200, None))

\* C3: the policy given at construction governs the executor's calls: at most
\* retry_config.max_retries + 1 attempts, sleeping the delays retry_config
\* computes.
C3_ConstructedPolicyGoverns ==
    /\ pc # "idle" => nattempts <= retry_config.max_retries + 1
    /\ pc = "sleep" => IsPolicyDelay(retry_config, attempt, error[1], delay[1])

\* C4: a response with status 400, 401, 403, 404 or 409 is never retried: the
\* call raises the corresponding error at once, with no sleep after it.
C4_ClientErrorsNeverRetried ==
    (response # None /\ response[1].status_code \in {400, 401, 403, 404, 409})
        => /\ pc = "raised"
           /\ result = error
           /\ result[1].born = nattempts
           /\ result[1].status_code = Some(response[1].status_code)
           /\ result[1].cls = error_classes[response[1].status_code]
           /\ nattempts = attempt + 1
           /\ nsleeps = attempt

C4_Witness ==
    /\ pc = "raised"
    /\ config.max_retries = 3
    /\ attempt = 0
    /\ nsleeps = 0
    /\ response = Some(Response(404, None))
    /\ result = Some(Exc("MenderNotFoundError", Some(404), None, 1))

\* C5: a failed attempt is retried if and only if its kind is one of the four
\* retryable kinds (and budget remains); a timed-out attempt is a
\* MenderTimeoutError and gets the budget and delays of a 5xx.
C5_RetriedIffRetryableKind ==
    (AfterAttempt /\ error # None)
        => /\ pc \in {"sleep", "raised"}
           /\ pc = "sleep"
                 <=> (error[1].cls \in RetryableKinds /\ attempt < config.max_retries)
           /\ response[1].t = "httpx.TimeoutException"
                 => /\ error[1].cls = "MenderTimeoutError"
                    /\ pc = "sleep" => IsExponentialDelay(config, attempt, delay[1])
           /\ (response[1].t = "response" /\ response[1].status_code \in 500..599)
                 => /\ error[1].cls = "MenderServerError"
                    /\ pc = "sleep" => IsExponentialDelay(config, attempt, delay[1])

C5_Witness ==
    /\ pc = "sleep"
    /\ config.max_retries = 3
    /\ attempt = 2
    /\ response = Some(TransportError("httpx.TimeoutException"))
    /\ error = Some(Exc("MenderTimeoutError", None, None, 3))

\* the kind the specification's table gives a non-2xx status
KindOfStatus(s) ==
    CASE s = 400 -> "MenderValidationError"
      [] s = 401 -> "MenderAuthenticationError"
      [] s = 403 -> "MenderAuthorizationError"
      [] s = 404 -> "MenderNotFoundError"
      [] s = 409 -> "MenderConflictError"
      [] s = 429 -> "MenderRateLimitError"
      [] s \in 500..599 -> "MenderServerError"
      [] OTHER -> "MenderAPIError"

\* C6: the classifier is a total function of the status: a 2xx response is
\* returned without raising, every other status raises the one kind the table
\* gives it, carrying the response's status.
C6_ClassifierTotal ==
    (AfterAttempt /\ response[1].t = "response")
        => IF response[1].status_code \in 200..299
           THEN error = None /\ pc = "returned" /\ result = response
           ELSE /\ error # None
                /\ error[1].cls = KindOfStatus(response[1].status_code)
                /\ error[1].status_code = Some(response[1].status_code)

\* C9: after a MenderRateLimitError carrying retry-after k seconds, the
\* executor sleeps exactly k seconds before the next attempt, whatever the
\* attempt index, max_delay and the jitter setting.
C9_RetryAfterIsTheDelay ==
    (/\ AfterAttempt
     /\ error # None
     /\ error[1].cls = "MenderRateLimitError"
     /\ error[1].retry_after # None
     /\ attempt < config.max_retries)
        => pc = "sleep" /\ delay = Some(1000 * error[1].retry_after[1])

\* k above max_delay, with jitter, at the last retry
C9_Witness ==
    /\ pc = "sleep"
    /\ config = RetryConfig
    /\ attempt = 2
    /\ error = Some(Exc("MenderRateLimitError", Some(429), Some(90), 3))
    /\ delay = Some(90000)

\* the suggested delay the specification reads from a Retry-After header
SuggestedDelay(header) ==
    IF header = None \/ ~int(header[1]).ok THEN None ELSE Some(int(header[1]).value)

\* C10: a 429 response always yields a MenderRateLimitError whose suggested
\* delay is the Retry-After header as integer seconds, none when the header is
\* absent or not an integer, and in the none case the retry delay is the
\* exponential one.
C10_RateLimitErrorFromAny429 ==
    (AfterAttempt /\ response[1].t = "response" /\ response[1].status_code = 429)
        => /\ error # None
           /\ error[1].cls = "MenderRateLimitError"
           /\ error[1].retry_after = SuggestedDelay(response[1].retry_after)
           /\ (pc = "sleep" /\ error[1].retry_after = None)
                 => IsExponentialDelay(config, attempt, delay[1])


\* C11: every failure of an executor operation that reaches the caller is an
\* instance of the closed taxonomy (the ten classes of exceptions.py), and no
\* failure is turned into a normal return.
C11_ClosedTaxonomy ==
    /\ pc = "raised" => result[1].cls \in MenderClasses
    /\ pc = "returned" => (error = None /\ is_success(response[1].status_code))

\* the sizes of the pages served so far
ServedSizes == [k \in 1..Len(p_served) |-> Len(p_served[k])]

\* C12: with page size s the iterator stops after the first page that is short
\* (fewer than s items) or whose has_more is false, a short page stops it
\* whatever has_more says, no page is fetched after such a page, a page of s
\* items does not end the iteration, and when the pages before the last each
\* held s items the count of fetches is k and the count of items yielded is
\* (k-1)*s plus the size of page k.
C12_StopRule ==
    LET k == Len(p_served)
        s == p_per_page
        Stops(j) == ServedSizes[j] < s
                    \/ ~ from_response(p_served[j], {}, j, s).has_more
    IN  /\ \A hm \in BOOLEAN : \A n \in 0..(s - 1) :
              IterBreaks([items |-> ServerPage(1, n), has_more |-> hm], s)
        /\ p_pc = "done" => (k >= 1 /\ Stops(k) /\ ServedSizes[k] < s)
        /\ \A j \in 1..k :
              Stops(j) => /\ j = k
                          /\ Len(p_fetched) = k
                          /\ p_page = k
                          /\ p_pc \in {"yield", "done"}
        /\ (p_pc = "done" /\ \A j \in 1..(k - 1) : ServedSizes[j] = s)
              => /\ Len(p_fetched) = k
                 /\ Len(p_yielded) = (k - 1) * s + ServedSizes[k]

\* page size 20, pages of 20, 20 and 5 items: 45 items and 3 fetches
C12_Witness ==
    /\ p_pc = "done"
    /\ p_per_page = 20
    /\ ServedSizes = <<20, 20, 5>>
    /\ Len(p_fetched) = 3
    /\ Len(p_yielded) = 45

RECURSIVE Flatten(_)
Flatten(pages) ==
    IF pages = <<>> THEN <<>>
    ELSE Flatten(SubSeq(pages, 1, Len(pages) - 1)) \o pages[Len(pages)]

\* C13: the requests are for pages 1, 2, 3, ... in order, each once and each
\* with the same per_page; a page is requested only when every item of the
\* pages before it has been yielded; and what the consumer has received is the
\* concatenation of the served pages in server order, up to the position
\* reached in the current page.
C13_OrderAndLaziness ==
    LET k == Len(p_served)
    IN  /\ p_fetched = [j \in 1..Len(p_fetched) |-> <<j, p_per_page>>]
        /\ Len(p_fetched) = IF p_pc = "fetch" THEN p_page - 1 ELSE p_page
        /\ k = IF p_pc = "raised" THEN p_page - 1 ELSE Len(p_fetched)
        /\ \A j \in 1..k : p_served[j] = ServerPage(j, Len(p_served[j]))
        /\ k = 0 => p_yielded = <<>>
        /\ k >= 1 =>
              /\ p_yielded = Flatten(SubSeq(p_served, 1, k - 1))
                                \o SubSeq(p_served[k], 1, p_next - 1)
              /\ p_pc \in {"fetch", "raised", "done"}
                    => p_yielded = Flatten(p_served)

\* in the middle of the third page, the first two pages yielded in full
C13_Witness ==
    /\ p_pc = "yield"
    /\ p_per_page = 3
    /\ Len(p_fetched) = 3
    /\ p_next = 3
    /\ p_yielded = <<<<1, 1>>, <<1, 2>>, <<1, 3>>, <<2, 1>>, <<2, 2>>,
                     <<2, 3>>, <<2, 4>>, <<3, 1>>, <<3, 2>>>>

\* the executor references the one open session, or none is open
OneSession ==
    /\ Cardinality(open_sessions) <= 1
    /\ _client # 0 => open_sessions = {_client}
    /\ _client = 0 => open_sessions = {}
    /\ nattempts > 0 => (client # 0 /\ client = _client)

\* a step of the executor seen from its sessions
SessionStep ==
    /\ nsessions' # nsessions =>
          /\ _client = 0
          /\ nsessions' = nsessions + 1
          /\ _client' = nsessions'
          /\ nattempts' = nattempts + 1 \/ (pc = "idle" /\ pc' = "idle")
    /\ (_client # 0 /\ ~ Close) => (_client' = _client /\ nsessions' = nsessions)
    /\ Close => (_client' = 0 /\ open_sessions' = {})
    /\ nattempts' = nattempts + 1 =>
          /\ client' = _client'
          /\ client' \in open_sessions'
          /\ _client # 0 => client' = _client

\* C14: no session exists before the first attempt or __aenter__; while no
\* close() happens the session stays the same one and every attempt, retries
\* included, uses it; close() leaves the executor without an open session; an
\* attempt after close() creates a new session; at most one open session is
\* referenced in every state.
C14_SessionLifecycle ==
    /\ nsessions = 0 /\ _client = 0
    /\ []OneSession
    /\ [][SessionStep]_vars

\* the second attempt of a call made after a close(), on the second session
C14_Witness ==
    /\ nsessions = 2
    /\ _client = 2
    /\ open_sessions = {2}
    /\ pc = "sleep"
    /\ nattempts = 2
    /\ client = 2

\* a credential is configured
Configured(tok) == tok # None /\ tok[1] # ""

\* the Authorization header of a request is Bearer tok, or absent without one
CarriesToken(rh, tok) ==
    IF Configured(tok)
    THEN "Authorization" \in DOMAIN rh /\ rh["Authorization"] = Bearer(tok[1])
    ELSE "Authorization" \notin DOMAIN rh

\* a token swap leaves the call in progress and the session as they are
SwapKeepsCall ==
    _token' # _token =>
        UNCHANGED <<pc, method, attempt, nattempts, nsleeps, last_exception,
                    response, error, result, delay, _client, open_sessions,
                    nsessions>>

\* C15 as stated: every attempt carries Authorization: Bearer t for the
\* credential t configured when it is sent, which is the latest one given to
\* set_token, and no Authorization header without a credential; the swap
\* leaves the call's attempt count and the session alone.
C15_EveryAttemptCarriesToken ==
    [][/\ nattempts' = nattempts + 1 =>
            /\ CarriesToken(request_headers'[1], token)
            /\ CarriesToken(request_headers'[1], _token)
       /\ SwapKeepsCall]_vars

\* C15 amended: the same for every attempt of a call whose headers argument
\* has no Authorization entry; when it has one, that entry is what the attempt
\* carries, with or without a credential.
C15_AttemptCarriesTokenUnlessOverridden ==
    [][/\ nattempts' = nattempts + 1 =>
            IF headers # None /\ "Authorization" \in DOMAIN headers[1]
            THEN request_headers'[1]["Authorization"] = headers[1]["Authorization"]
            ELSE /\ CarriesToken(request_headers'[1], token)
                 /\ CarriesToken(request_headers'[1], _token)
       /\ SwapKeepsCall]_vars

\* a call sleeping after a first attempt sent with t1, the token swapped to
\* t2 during the sleep: attempt count and session as they were
C15_Witness ==
    /\ pc = "sleep"
    /\ nattempts = 1
    /\ headers = None
    /\ request_headers = Some(_headers(Some("t1")))
    /\ _token = Some("t2")
    /\ token = Some("t2")
    /\ _client = 1
    /\ nsessions = 1

\* C16: an API error raised for a non-2xx response carries that response's
\* status code, its body (the parsed JSON when it parses, else the text) and
\* its X-Request-Id (none when absent); the error that reaches the caller
\* after retries is the one of the last attempt, with that attempt's values.
C16_ErrorCarriesItsResponse ==
    /\ (error # None /\ error[1].cls \in APIErrorClasses) =>
          LET resp == response[1] IN
          /\ resp.t = "response" /\ ~ is_success(resp.status_code)
          /\ error[1].status_code = Some(resp.status_code)
          /\ error[1].born = nattempts
          /\ error_detail # None
          /\ error_detail[1].response_body =
                 IF resp.content.json # None THEN resp.content.json[1]
                 ELSE resp.content.text
          /\ error_detail[1].request_id = resp.request_id
    /\ (pc = "raised" /\ result[1].cls \in APIErrorClasses) => result = error

\* the fourth 503 of a call, raised with the body and request id it came with
C16_Witness ==
    /\ pc = "raised"
    /\ nattempts = 4
    /\ result[1].cls = "MenderServerError"
    /\ result[1].born = 4
    /\ response[1].request_id = Some("req-2")
    /\ error_detail[1].request_id = Some("req-2")
    /\ error_detail[1].response_body = JDict({<<"code", JInt(7)>>})

\* C17 as stated: the message is the value of the body's error field if the
\* body has one, else of its message field, else of its Error field, else the
\* stringified body, else "Unknown error".
C17_MessageByPresence ==
    error_detail # None =>
        error_detail[1].message =
            _extract_error_message_HasKey(error_detail[1].response_body)

\* the first of the keys error, message, Error whose value in d is truthy
FirstTruthyKey(d) ==
    IF Truthy(Get(d, "error")) THEN "error"
    ELSE IF Truthy(Get(d, "message")) THEN "message"
    ELSE IF Truthy(Get(d, "Error")) THEN "Error"
    ELSE "none"

\* C17 amended: for a JSON object the message is the value of the first of
\* error, message, Error that is present and truthy (not null, not empty),
\* else the stringified object; for any other body it is the stringified
\* body, or "Unknown error" when the body is falsy (empty text, null, 0, []).
\* {"error": "bad input"} at 400 gives "bad input".
C17_MessageByTruthiness ==
    error_detail # None =>
        LET b == error_detail[1].response_body
            m == error_detail[1].message
        IN  /\ (b[1] = "dict" /\ FirstTruthyKey(b) # "none")
                  => (HasKey(b, FirstTruthyKey(b)) /\ m = Get(b, FirstTruthyKey(b)))
            /\ (b[1] = "dict" /\ FirstTruthyKey(b) = "none") => m = <<"str of", b>>
            /\ (b[1] = "str" /\ b[2] # "") => m = b
            /\ (b[1] \notin {"dict", "str"} /\ Truthy(b)) => m = <<"str of", b>>
            /\ (b[1] # "dict" /\ ~ Truthy(b)) => m = Str("Unknown error")
            /\ (b = JDict({<<"error", Str("bad input")>>})
                   /\ response[1].status_code = 400) => m = Str("bad input")

\* {"error": "bad input"} at status 400
C17_Witness ==
    /\ pc = "raised"
    /\ response[1].status_code = 400
    /\ result[1].cls = "MenderValidationError"
    /\ error_detail[1].response_body = JDict({<<"error", Str("bad input")>>})
    /\ error_detail[1].message = Str("bad input")

\* a call's counters, error and result are those of its own attempts
OwnOutcome(r) ==
    /\ r.nattempts <= 4
    /\ r.pc \in {"func", "wait"} => (r.nattempts = r.attempt /\ r.nsleeps = r.attempt)
    /\ r.pc = "sleep" =>
          /\ r.nattempts = r.attempt + 1 /\ r.nsleeps = r.attempt + 1
          /\ r.error # None /\ r.last_exception = r.error
          /\ r.error[1].born = r.nattempts
          /\ r.response[1].status_code = 503
    /\ r.pc = "returned" =>
          /\ r.nattempts = r.attempt + 1 /\ r.nsleeps = r.attempt
          /\ r.error = None
          /\ r.response[1].status_code = 200
          /\ r.result = r.response
    /\ r.pc = "raised" =>
          /\ r.nattempts = r.attempt + 1 /\ r.nsleeps = r.attempt
          /\ r.error # None /\ r.result = r.error
          /\ r.error[1].born = r.nattempts
          /\ r.error[1].status_code = Some(r.response[1].status_code)
          /\ r.response[1].status_code = 404 \/ r.nattempts = 4

\* while a call sleeps, every other unfinished call can take its next step
OthersRunDuringSleep ==
    \A c \in CallIds : calls[c].pc = "sleep" =>
        \A d \in CallIds \ {c} :
            calls[d].pc \in {"new", "func", "wait"} => ENABLED StepOf(d)

\* a step is the step of one call and leaves the other calls as they are
OneCallSteps ==
    \E c \in CallIds : \A d \in CallIds \ {c} : calls'[d] = calls[d]

\* C18: while one call sleeps between attempts the other calls through the
\* executor can start, attempt and complete; each call has its own attempt
\* counter and last error, its outcome is that of its own attempts, and no
\* step of a call changes another call.
C18_BackoffPerCall ==
    /\ [](\A c \in CallIds : OwnOutcome(calls[c]))
    /\ []OthersRunDuringSleep
    /\ [][OneCallSteps]_vars

\* call 2 started while call 1 was in its first sleep, failed once, retried and
\* returned, call 1 still in that sleep
C18_Witness ==
    /\ calls[1].pc = "sleep"
    /\ calls[1].nsleeps = 1
    /\ calls[2].overlapped
    /\ calls[2].pc = "returned"
    /\ calls[2].nattempts = 2

\* C19: with no close(), the calls share one session: at most one session is
\* ever created, every request of every call is sent on it, and a step of a
\* call changes nothing of the executor but the session it creates when there
\* is none.
C19_OneSharedSession ==
    /\ [](/\ nsessions <= 1
          /\ Cardinality(open_sessions) <= 1
          /\ \A c \in CallIds :
                calls[c].client # 0 =>
                    /\ calls[c].client = 1
                    /\ _client = 1 /\ nsessions = 1 /\ open_sessions = {1})
    /\ [][/\ UNCHANGED <<retry_config, config, token, _token>>
          /\ _client' # _client => (_client = 0 /\ _client' = 1)]_vars

\* two requests in flight at once on the one session
C19_Witness ==
    /\ calls[1].pc = "wait"
    /\ calls[2].pc = "wait"
    /\ calls[1].client = 1
    /\ calls[2].client = 1
    /\ calls[2].nattempts = 1
    /\ nsessions = 1

\* C20: the operations given the same attempt outcomes make the same number
\* of attempts, sleep the same delays and end alike: with the same error, or
\* with the response (download: with the content of that response).
C20_MethodsRetriedAlike ==
    \A c \in CallIds :
        LET a == calls[1]
            b == calls[c]
        IN  /\ b.pc = a.pc
            /\ b.attempt = a.attempt
            /\ b.nattempts = a.nattempts
            /\ b.nsleeps = a.nsleeps
            /\ b.delay = a.delay
            /\ b.response = a.response
            /\ b.error = a.error
            /\ b.last_exception = a.last_exception
            /\ b.client = a.client
            /\ a.pc = "raised" => b.result = a.result
            /\ a.pc = "returned" =>
                  IF b.op = "download"
                  THEN b.result = Some(a.response[1].content)
                  ELSE b.result = a.response
            /\ a.pc \notin {"raised", "returned"} => (a.result = None /\ b.result = None)

\* a POST sent three times: two retryable failures, then the response
C20_Witness ==
    /\ calls[2].op = "post"
    /\ calls[2].pc = "returned"
    /\ calls[2].nattempts = 3
    /\ calls[2].nsleeps = 2
    /\ calls[1].pc = "returned"
    /\ calls[1].nattempts = 3

(***************************************************************************)
(* client.py: MenderClient, the executors (HTTPClient objects) it creates  *)
(* and the sub-clients it hands out.  An executor is a record of its token *)
(* and its _client; a sub-client is a record of its kind and of _http, the *)
(* executor it was constructed with.  Sessions are those of open_sessions. *)
(***************************************************************************)
\* HTTPClient objects one MenderClient creates in a run
MaxExecutors == 2

FacadeTokens == {"t1", "t2"}

\* HTTPClient(base_url=..., token=self._token, ...): no session yet
NewExecutor(tok) == [token |-> tok, _client |-> 0]

\* mutant: an executor created at every call
_ensure_http_client_Always(http, execs, tok) ==
    [http |-> Len(execs) + 1, executors |-> Append(execs, NewExecutor(tok))]

\* MenderClient._ensure_http_client: the executor is created when
\* self._http_client is None; the result is the reference returned and the
\* executors that then exist
_ensure_http_client(http, execs, tok) ==
    IF http = 0
    THEN [http |-> Len(execs) + 1, executors |-> Append(execs, NewExecutor(tok))]
    ELSE [http |-> http, executors |-> execs]

\* BaseClient.__init__: self._http = http_client
BaseClient(kind, http_client) == [kind |-> kind, _http |-> http_client]

facade_frame == UNCHANGED <<retry_config, config, _client, pc, method, attempt,
                            response, error, last_exception, result, nattempts,
                            nsleeps, delay, token, headers, client,
                            request_headers, error_detail, delay_vars, page_vars,
                            calls, other_vars>>

\* the property inventory
inventory ==
    /\ IF _inventory = 0
       THEN LET e == _ensure_http_client(_http_client, executors, _token)
                new == Len(subclients) + 1
            IN  /\ Len(e.executors) <= MaxExecutors
                /\ _http_client' = e.http
                /\ executors' = e.executors
                /\ subclients' = Append(subclients, BaseClient("inventory", e.http))
                /\ _inventory' = new
                /\ held' = held \cup {new}
       ELSE /\ held' = held \cup {_inventory}
            /\ UNCHANGED <<_http_client, executors, subclients, _inventory>>
    /\ UNCHANGED <<_deployments, last_request, _token, open_sessions, nsessions>>
    /\ facade_frame

\* the property deployments
deployments ==
    /\ IF _deployments = 0
       THEN LET e == _ensure_http_client(_http_client, executors, _token)
                new == Len(subclients) + 1
            IN  /\ Len(e.executors) <= MaxExecutors
                /\ _http_client' = e.http
                /\ executors' = e.executors
                /\ subclients' = Append(subclients,
                                        BaseClient("deployments", e.http))
                /\ _deployments' = new
                /\ held' = held \cup {new}
       ELSE /\ held' = held \cup {_deployments}
            /\ UNCHANGED <<_http_client, executors, subclients, _deployments>>
    /\ UNCHANGED <<_inventory, last_request, _token, open_sessions, nsessions>>
    /\ facade_frame

\* MenderClient.set_token
MenderClient_set_token(t) ==
    /\ _token' = Some(t)
    /\ IF _http_client # 0
       THEN executors' = [executors EXCEPT ![_http_client].token = Some(t)]
       ELSE UNCHANGED executors
    /\ UNCHANGED <<_http_client, _inventory, _deployments, subclients, held,
                   last_request, open_sessions, nsessions>>
    /\ facade_frame

\* a request through a sub-client the caller holds: self._http.get(...) and
\* the like, whose _request takes the session from _get_client of that
\* executor and sends the executor's token
Request(sc) ==
    /\ sc \in held
    /\ LET e == subclients[sc]._http
           s == executors[e]._client
       IN  IF s = 0 \/ s \notin open_sessions
           THEN /\ nsessions < MaxSessions
                /\ executors' = [executors EXCEPT ![e]._client = nsessions + 1]
                /\ open_sessions' = open_sessions \cup {nsessions + 1}
                /\ nsessions' = nsessions + 1
                /\ last_request' = Some([sub |-> sc, executor |-> e,
                                         token |-> executors[e].token,
                                         session |-> nsessions + 1])
           ELSE /\ last_request' = Some([sub |-> sc, executor |-> e,
                                         token |-> executors[e].token,
                                         session |-> s])
                /\ UNCHANGED <<executors, open_sessions, nsessions>>
    /\ UNCHANGED <<_http_client, _inventory, _deployments, subclients, held,
                   _token>>
    /\ facade_frame

\* MenderClient.close: HTTPClient.close of the executor it references, then
\* the three references are cleared
MenderClient_close ==
    /\ IF _http_client # 0
       THEN LET s == executors[_http_client]._client
            IN  /\ open_sessions' = open_sessions \ {s}
                /\ executors' = [executors EXCEPT ![_http_client]._client = 0]
                /\ _http_client' = 0
                /\ _inventory' = 0
                /\ _deployments' = 0
       ELSE UNCHANGED <<open_sessions, executors, _http_client, _inventory,
                        _deployments>>
    /\ UNCHANGED <<subclients, held, last_request, _token, nsessions>>
    /\ facade_frame

\* MenderClient.__aenter__: self._ensure_http_client()
MenderClient_aenter ==
    /\ LET e == _ensure_http_client(_http_client, executors, _token)
       IN  /\ Len(e.executors) <= MaxExecutors
           /\ _http_client' = e.http
           /\ executors' = e.executors
    /\ UNCHANGED <<_inventory, _deployments, subclients, held, last_request,
                   _token, open_sessions, nsessions>>
    /\ facade_frame

\* MenderClient.__aexit__: await self.close()
MenderClient_aexit == MenderClient_close

\* MenderClient.__init__ with a token or without
InitFacade ==
    /\ InitExecutor
    /\ retry_config = RetryConfig
    /\ InitDelayIdle
    /\ InitPageIdle
    /\ InitCallsIdle
    /\ InitFacadeIdle
    /\ InitOtherIdle

FacadeNext ==
    \/ inventory
    \/ deployments
    \/ \E t \in FacadeTokens : MenderClient_set_token(t)
    \/ \E sc \in 1..(2 * MaxExecutors) : Request(sc)
    \/ MenderClient_close
    \/ MenderClient_aenter
    \/ MenderClient_aexit

SpecFacade == InitFacade /\ [][FacadeNext]_vars

(***************************************************************************)
(* Claims about MenderClient                                               *)
(***************************************************************************)
\* the sub-client the client currently returns for a property uses the
\* executor the client references
UsesCurrentExecutor(sub) ==
    sub # 0 => /\ _http_client # 0
               /\ subclients[sub]._http = _http_client

\* C21: between two close() calls a MenderClient has one executor: the
\* inventory and deployments sub-clients it currently returns are built on the
\* executor it references, which carries the client's token; a step that
\* creates an executor starts from a client that references none, a step of a
\* client that references one keeps it or clears it, set_token writes the
\* token of that executor and close closes the session of that executor.
C21_OneExecutorPerSession ==
    /\ [](/\ UsesCurrentExecutor(_inventory)
          /\ UsesCurrentExecutor(_deployments)
          /\ _http_client # 0 => executors[_http_client].token = _token)
    /\ [][/\ Len(executors') > Len(executors) =>
                /\ _http_client = 0
                /\ Len(executors') = Len(executors) + 1
                /\ _http_client' = Len(executors')
          /\ _http_client # 0 => _http_client' \in {_http_client, 0}
          /\ (_http_client # 0 /\ _token' # _token) =>
                executors'[_http_client].token = _token'
          /\ (_http_client # 0 /\ _http_client' = 0) =>
                /\ executors'[_http_client]._client = 0
                /\ executors[_http_client]._client \notin open_sessions']_vars

\* both properties accessed in the client's second session, after set_token
C21_Witness ==
    /\ Len(executors) = 2
    /\ _http_client = 2
    /\ _inventory # 0
    /\ _deployments # 0
    /\ subclients[_inventory]._http = 2
    /\ subclients[_deployments]._http = 2
    /\ executors[2].token = Some("t2")
    /\ executors[2]._client \in open_sessions

(***************************************************************************)
(* clients/deployments.py, clients/inventory.py: the identifier a creating *)
(* method returns, cut out of the Location header of the response.  A      *)
(* string is a sequence of one-character strings.                          *)
(***************************************************************************)
\* longest Location value enumerated
MaxLocation == 4

LocationChars == {"/", "a", "b"}

CreatingMethods == {"create_deployment", "upload_artifact", "create_filter"}

\* "/deployments/abc-123"
ExampleLocation ==
    <<"/", "d", "e", "p", "l", "o", "y", "m", "e", "n", "t", "s", "/",
      "a", "b", "c", "-", "1", "2", "3">>

\* Location of a 201 response: absent, or any short string, or the example
Locations ==
    {None} \cup {Some(ExampleLocation)}
           \cup {Some(v) : v \in UNION {[1..n -> LocationChars] :
                                         n \in 0..MaxLocation}}

\* str.split("/"): the list of the pieces between the separators
RECURSIVE split(_)
split(str) ==
    IF str = <<>> THEN << <<>> >>
    ELSE LET rest == split(Tail(str))
         IN  IF Head(str) = "/"
             THEN << <<>> >> \o rest
             ELSE << <<Head(str)>> \o rest[1] >> \o Tail(rest)

\* dict.get(key, default) on the value looked up
get(value, default) == IF value = None THEN default ELSE value[1]

\* mutant: a trailing separator dropped before the split
LocationId_Stripped(hdr) ==
    LET location == get(hdr, <<>>)
        stripped == IF location # <<>> /\ location[Len(location)] = "/"
                    THEN SubSeq(location, 1, Len(location) - 1)
                    ELSE location
        parts == split(stripped)
    IN  parts[Len(parts)]

\* location = response.headers.get("Location", ""); location.split("/")[-1]
LocationId(hdr) ==
    LET location == get(hdr, <<>>)
        parts == split(location)
    IN  parts[Len(parts)]

location_frame == UNCHANGED <<exec_vars, delay_vars, page_vars, calls,
                              facade_vars, closer, settings_vars>>

\* the POST of a creating method has returned a successful response
InitLocation ==
    /\ InitExecutor
    /\ retry_config = RetryConfig
    /\ InitDelayIdle
    /\ InitPageIdle
    /\ InitCallsIdle
    /\ InitFacadeIdle
    /\ InitCloserIdle
    /\ InitSettings
    /\ l_method \in CreatingMethods
    /\ l_headers \in Locations
    /\ l_id = None
    /\ l_pc = "args"

\* the last two lines of create_deployment, upload_artifact and create_filter
ReturnId ==
    /\ l_pc = "args"
    /\ l_id' = Some(LocationId(l_headers))
    /\ l_pc' = "done"
    /\ UNCHANGED <<l_method, l_headers>>
    /\ location_frame

LocationNext == ReturnId

SpecLocation == InitLocation /\ [][LocationNext]_vars

(***************************************************************************)
(* Claims about resource creation                                          *)
(***************************************************************************)
\* the string of the header, "" when it is absent
LocationText == IF l_headers = None THEN <<>> ELSE l_headers[1]

\* C22: a creating method returns the final '/'-separated segment of the
\* Location header: the returned string holds no '/', and the header is the
\* returned string itself or ends with '/' followed by it; an absent header or
\* one ending in '/' gives the empty string; every input gives a return.
C22_FinalSegmentOfLocation ==
    /\ [](l_pc = "done" =>
            LET id == l_id[1]
                cut == Len(LocationText) - Len(id)
            IN  /\ l_id # None
                /\ \A i \in 1..Len(id) : id[i] # "/"
                /\ cut >= 0
                /\ SubSeq(LocationText, cut + 1, Len(LocationText)) = id
                /\ cut > 0 => LocationText[cut] = "/"
                /\ (l_headers = None
                    \/ (LocationText # <<>>
                        /\ LocationText[Len(LocationText)] = "/")) => id = <<>>
                /\ l_headers = Some(ExampleLocation) =>
                      id = <<"a", "b", "c", "-", "1", "2", "3">>)
    /\ [](l_pc = "args" => ENABLED ReturnId)

\* "/a/" gives the empty string
C22_Witness ==
    /\ l_pc = "done"
    /\ l_headers = Some(<<"/", "a", "/">>)
    /\ l_id = Some(<<>>)

(***************************************************************************)
(* Claims about the page window                                            *)
(***************************************************************************)
\* the response carries X-Total-Count in some spelling
NamesTotalCount ==
    /\ p_header # None
    /\ p_header[1][1] \in {"X-Total-Count", "x-total-count", "X-TOTAL-COUNT"}

\* a string of decimal digits
IsDecimal(str) == str # <<>> /\ \A i \in 1..Len(str) : IsDigit(str[i])

\* C23: the page window is recomputed from the latest response alone:
\* total_count is the integer of X-Total-Count in whatever case the server
\* spelled the name, and None when the header is absent, empty or not an
\* integer; has_more is true exactly when the page holds at least per_page
\* items, whatever the header says; items, page and per_page are those of the
\* request and its answer.
C23_WindowFromResponse ==
    p_result # None =>
        LET r == p_result[1]
            k == Len(p_served)
        IN  /\ r.items = p_served[k]
            /\ r.page = p_fetched[k][1]
            /\ r.per_page = p_fetched[k][2]
            /\ r.has_more = (Len(p_served[k]) >= p_fetched[k][2])
            /\ r.total_count =
                  IF NamesTotalCount /\ IsDecimal(p_header[1][2])
                  THEN Some(DigitsValue(p_header[1][2]))
                  ELSE None
            /\ p_header = Some(<<"X-TOTAL-COUNT", <<"4", "5">> >>) =>
                  r.total_count = Some(45)
            /\ p_header = Some(<<"X-Total-Count", <<"a", "b", "c">> >>) =>
                  r.total_count = None

\* a full second page whose header says there are no items at all
C23_Witness ==
    /\ p_result # None
    /\ p_header = Some(<<"X-Total-Count", <<"0">> >>)
    /\ p_result[1].total_count = Some(0)
    /\ p_result[1].page = 2
    /\ Len(p_result[1].items) = 3
    /\ p_result[1].per_page = 3
    /\ p_result[1].has_more

(***************************************************************************)
(* Claims about the end of a call                                          *)
(***************************************************************************)
\* the exception is of a kind the wrapper's policy does not retry
NotRetried(e) == Bases(e.cls) \cap config.retryable_exceptions = {}

\* C24: a call ends at the first attempt that succeeds or fails with an error
\* the policy does not retry: that attempt's response is returned, or that
\* attempt's exception is raised; a call still running has seen only retried
\* errors, one per attempt; the attempts of a call never exceed
\* max_retries + 1; the loop index and the attempt count only go up by one
\* during a call, whatever the kinds of the errors.
C24_EndsAtFirstDecisiveAttempt ==
    /\ [](/\ pc # "idle" => nattempts <= config.max_retries + 1
          /\ pc = "func" => nattempts = attempt
          /\ pc = "sleep" => /\ nattempts = attempt + 1
                             /\ error # None
                             /\ ~NotRetried(error[1])
                             /\ last_exception = error)
    /\ [][/\ (pc = "func" /\ nattempts' = nattempts + 1 /\ error' = None) =>
                /\ pc' = "returned"
                /\ result' = response'
          /\ (pc = "func" /\ nattempts' = nattempts + 1 /\ error' # None
              /\ NotRetried(error'[1])) =>
                /\ pc' = "raised"
                /\ result' = error'
                /\ error'[1].born = nattempts'
          /\ (pc # "idle" /\ pc' # "idle") =>
                /\ attempt' \in {attempt, attempt + 1}
                /\ nattempts' \in {nattempts, nattempts + 1}]_vars

\* a 503 then a 404: two attempts, the NotFoundError of the second is raised
C24_Witness ==
    /\ pc = "raised"
    /\ nattempts = 2
    /\ last_exception = Some(Exc("MenderServerError", Some(503), None, 1))
    /\ result = Some(Exc("MenderNotFoundError", Some(404), None, 2))

(***************************************************************************)
(* utils/retry.py: the wrapper under any max_retries.  RetryConfig is a    *)
(* dataclass without validation: max_retries is whatever integer the       *)
(* caller gave.                                                            *)
(***************************************************************************)
\* the values of max_retries tried: negative, zero, positive
RetryCounts == {-2, -1, 0, 1, 2}

AnyPolicies == {[RetryConfig EXCEPT !.max_retries = n] : n \in RetryCounts}

\* retry_with_backoff(config) with any of these policies
InitBudget ==
    /\ InitFacadeIdle
    /\ InitOtherIdle
    /\ InitDelayIdle
    /\ InitPageIdle
    /\ InitCallsIdle
    /\ retry_config = RetryConfig
    /\ config \in AnyPolicies
    /\ _client = 0
    /\ open_sessions = {}
    /\ nsessions = 0
    /\ pc = "idle"
    /\ method = "none"
    /\ attempt = 0
    /\ response = None
    /\ error = None
    /\ last_exception = None
    /\ result = None
    /\ nattempts = 0
    /\ nsleeps = 0
    /\ delay = None
    /\ InitWire

SpecBudget == InitBudget /\ [][Next]_vars

\* C25: whatever max_retries is, a call that has ended has invoked the
\* wrapped function at least once and returns the function's value or raises
\* an exception the function raised, never the wrapper's RuntimeError.
C25_FunctionInvokedOwnOutcome ==
    /\ pc = "returned" => /\ nattempts >= 1
                          /\ result = response
    /\ pc = "raised" => /\ nattempts >= 1
                        /\ result = error
                        /\ result[1].cls # "RuntimeError"

(***************************************************************************)
(* utils/http.py: HTTPClient.close() run as a task beside the concurrent   *)
(* calls.  close() tests the session, awaits its aclose() and, once that   *)
(* has returned, clears the reference: the await is a point where the      *)
(* calls may run.  httpx marks the session closed when aclose() starts.    *)
(***************************************************************************)
\* every concurrent call has returned or raised
AllReturned == \A c \in CallIds : calls[c].pc \in {"returned", "raised"}

closing_frame ==
    /\ UNCHANGED <<retry_config, config, single_call_vars, wire_vars>>
    /\ UNCHANGED <<delay_vars, page_vars, facade_vars, location_vars, calls,
                   nsessions, settings_vars>>

\* close() up to its await: with a session that is open, aclose() starts and
\* the session counts as closed; with none, close() returns.  quiet records
\* whether every call had returned when this close() started.  The sessions
\* closed in a run are fewer than MaxSessions
CloseBegin ==
    /\ closer.pc \in {"idle", "closed"}
    /\ IF _client # 0 /\ _client \in open_sessions
       THEN /\ nsessions < MaxSessions
            /\ open_sessions' = open_sessions \ {_client}
            /\ closer' = [pc |-> "aclose", quiet |-> AllReturned]
       ELSE /\ closer' = [pc |-> "closed", quiet |-> AllReturned]
            /\ UNCHANGED open_sessions
    /\ UNCHANGED _client
    /\ closing_frame

\* aclose() has returned: self._client = None
CloseEnd ==
    /\ closer.pc = "aclose"
    /\ _client' = 0
    /\ closer' = [closer EXCEPT !.pc = "closed"]
    /\ UNCHANGED open_sessions
    /\ closing_frame

ClosingNext ==
    \/ \E c \in CallIds : Start(c)
    \/ \E c \in CallIds : Send(c)
    \/ \E c \in CallIds : Receive(c)
    \/ \E c \in CallIds : WakeUp(c)
    \/ CloseBegin
    \/ CloseEnd

SpecClosing == InitConc /\ [][ClosingNext]_vars

\* C26: close() leaks no session: when a close() that started after every
\* call had returned has completed, no session is open and none is
\* referenced; and the step of close() that clears the reference never clears
\* a reference to a session that is open.
C26_NoSessionLeaked ==
    /\ []((closer.pc = "closed" /\ closer.quiet) =>
             (open_sessions = {} /\ _client = 0))
    /\ [][(closer.pc = "aclose" /\ closer'.pc = "closed") =>
             _client \notin open_sessions]_vars

(***************************************************************************)
(* Claims about the sessions of a MenderClient                             *)
(***************************************************************************)
\* C27: when MenderClient.close() returns, no session created on behalf of
\* the client is open, whatever sub-clients were used before, those obtained
\* before an earlier close() included; and every request through a sub-client
\* sends the token the client holds, the one most recently given to set_token.
C27_CloseLeavesNoSession ==
    /\ [][MenderClient_close => open_sessions' = {}]_vars
    /\ [][last_request' # last_request => last_request'[1].token = _token]_vars

(***************************************************************************)
(* Claims about the end of an iteration                                    *)
(***************************************************************************)
\* the pages served are those of a result set of total items cut by s
ServesTotal(total, s) ==
    \A j \in 1..Len(p_served) :
        LET left == total - (j - 1) * s
        IN  ServedSizes[j] = IF left <= 0 THEN 0 ELSE Min(s, left)

\* C28: with page size s >= 1 the iterator ends if and only if some fetched
\* page holds fewer than s items: it has ended only after a short last page,
\* while every page served was full it has not ended, whatever X-Total-Count
\* said, and a short page leads to its end.  Over a result set of total items
\* it makes total div s + 1 fetches and yields total items: a positive
\* multiple of s costs one more fetch, of an empty page, and an empty result
\* set costs one fetch and yields nothing.
C28_EndsAtShortPage ==
    /\ [](LET k == Len(p_served)
              s == p_per_page
          IN  /\ p_pc = "done" => /\ k >= 1
                                  /\ ServedSizes[k] < s
                                  /\ Len(p_fetched) = k
              /\ (\A j \in 1..k : ServedSizes[j] >= s) => p_pc # "done"
              /\ \A total \in 0..(MaxPages * s) :
                    (p_pc = "done" /\ ServesTotal(total, s)) =>
                       /\ Len(p_fetched) = (total \div s) + 1
                       /\ Len(p_yielded) = total
                       /\ total % s = 0 => ServedSizes[k] = 0)
    /\ (\E j \in 1..Len(p_served) : ServedSizes[j] < p_per_page) ~> (p_pc = "done")

\* three items by pages of three, the header of each response saying 3: a
\* second fetch, of an empty page, ends the iteration
C28_Witness ==
    /\ p_pc = "done"
    /\ p_per_page = 3
    /\ ServedSizes = <<3, 0>>
    /\ Len(p_fetched) = 2
    /\ Len(p_yielded) = 3
    /\ p_header = Some(<<"X-Total-Count", <<"3">> >>)

(***************************************************************************)
(* Claims about a failed iteration                                         *)
(***************************************************************************)
\* C29: when the fetch of page k fails the iterator raises the error of that
\* fetch, having yielded every item of pages 1..k-1 and no other, and does
\* nothing more: no further fetch, no further item.  An iterator obtained
\* afterwards starts at page 1 with nothing fetched or yielded: its first
\* fetch asks for page 1, wherever the failed one had stopped.
C29_FailureEndsIteration ==
    /\ [](p_pc = "raised" =>
             LET k == Len(p_fetched)
             IN  /\ p_raised # None
                 /\ p_raised[1] \in FetchErrors
                 /\ Len(p_served) = k - 1
                 /\ p_fetched[k] = <<k, p_per_page>>
                 /\ p_yielded = Flatten(p_served))
    /\ [](p_fetched # <<>> => p_fetched[1] = <<1, p_per_page>>)
    /\ [][p_pc = "raised" =>
             \/ UNCHANGED <<p_fetched, p_yielded, p_served, p_page, p_pc, p_raised>>
             \/ /\ p_failed' = p_failed + 1
                /\ p_page' = 1
                /\ p_pc' = "fetch"
                /\ p_fetched' = <<>>
                /\ p_yielded' = <<>>
                /\ p_result' = None
                /\ p_raised' = None]_vars

\* after an iterator failed, the next one has fetched page 1 and fails at its
\* third fetch, the items of its pages 1 and 2 yielded
C29_Witness ==
    /\ p_failed = 1
    /\ p_pc = "raised"
    /\ p_per_page = 2
    /\ p_fetched = <<<<1, 2>>, <<2, 2>>, <<3, 2>>>>
    /\ ServedSizes = <<2, 2>>
    /\ Len(p_yielded) = 4
    /\ p_raised = Some(Exc("MenderServerError", Some(503), None, 4))

(***************************************************************************)
(* Claims about what a call leaves of the executor                         *)
(***************************************************************************)
\* C30: no step of a call, whatever its outcome, changes the executor:
\* base_url, token, timeout, verify_ssl and retry_config are never written;
\* while a call is in progress a session that is open stays the executor's
\* session and stays open, and a session is created only when the executor
\* has none open; a call that has ended after an attempt leaves the session
\* of its attempts open and referenced; and an attempt made while a session
\* is open is made on that session.
C30_CallLeavesExecutorAlone ==
    /\ [][/\ UNCHANGED <<base_url, token, timeout, verify_ssl, retry_config>>
          /\ (pc # "idle" \/ pc' # "idle") =>
                IF _client # 0 /\ _client \in open_sessions
                THEN UNCHANGED <<_client, open_sessions, nsessions>>
                ELSE \/ UNCHANGED <<_client, open_sessions, nsessions>>
                     \/ /\ nattempts' = nattempts + 1
                        /\ _client' \notin open_sessions
                        /\ open_sessions' = open_sessions \cup {_client'}
          /\ (nattempts' = nattempts + 1 /\ _client # 0
              /\ _client \in open_sessions) => client' = _client]_vars
    /\ []((pc \in {"returned", "raised"} /\ nattempts >= 1) =>
             /\ _client # 0
             /\ _client \in open_sessions
             /\ client = _client)

\* a call that exhausted its retries on connection errors: four attempts on
\* the one session, which is still open
C30_Witness ==
    /\ pc = "raised"
    /\ nattempts = 4
    /\ result # None
    /\ result[1].cls = "MenderConnectionError"
    /\ _client = 1
    /\ nsessions = 1
    /\ open_sessions = {1}
    /\ retry_config = CustomRetryConfig

====
